---- MODULE Spec2Model ----
(***************************************************************************)
(* Klausurmaster: the progression document (spaces -> rows -> columns ->   *)
(* cards), the operations of CardApp that change it, and the bounded       *)
(* undo/redo history that guards them (src/main/app.py).                   *)
(*                                                                         *)
(* Python objects that are copied or shared are kept in a heap: `heap`     *)
(* maps an object id to the document stored there, `data` is the id of the *)
(* live document (self.data), and a history entry holds the id of its own  *)
(* document.  copy.deepcopy allocates a new id; a change made in place     *)
(* rewrites heap[data] and is seen through every reference to that id.     *)
(***************************************************************************)
EXTENDS Integers, Sequences, FiniteSets, TLC

VARIABLES
    heap,               \* object id -> document
    data,               \* self.data: id of the live document
    selected_row_name,  \* self.selected_row_name
    history,            \* self.history: sequence of entries [data, selected_row]
    future,             \* self.future
    save_file,          \* the document last written to SAVE_FILE
    delete_mode,        \* self.delete_mode
    mark_mode,          \* self.mark_mode
    moving_card,        \* self.moving_card: <<>> (None) or <<row, col, front>>
    drag_data,          \* self.drag_data: <<>> (None) or [row, col, card, moved]
    button,             \* the card widget the mouse button is held on: <<>> (button up),
                        \* <<row, col, front>>, or <<"gone">> once the board was rebuilt
    disk,               \* whether SAVE_FILE can be written: "ok", "denied", "full"
    forced_dialogs,     \* open "Neuer Space" dialogs created with skip_history=True
    grab,               \* TRUE while such a dialog holds the input grab
    log,                \* observer: what the last handler called, in order
    last,               \* observer: the last handler, its input, its outcome, how long
                        \* history and future were when it started, whether it left
                        \* document, selection, history and future as they were, the
                        \* outcome of the handler before it, the document an undo
                        \* just before it replaced, and the entry it popped as undo
    run,                \* observer: the snapshots recorded so far, and the mutations and
                        \* undos since the state `base`
    steps,              \* observer: handlers run so far
    objects             \* the lists and card dicts below the live document, each with
                        \* its identity: [rows, columns, cards, lists, dicts]; followed
                        \* by the steps of SpecShare, which leave the rest alone

vars == <<heap, data, selected_row_name, history, future, save_file, delete_mode,
          mark_mode, moving_card, drag_data, button, disk, forced_dialogs, grab, log, last,
          run, steps, objects>>

-----------------------------------------------------------------------------
(* Bounds of the model *)

MaxSteps == 3
MaxDeepSteps == 10
MaxStartSteps == 6
MaxRowSteps == 4
MaxWeightSteps == 4
MaxTransferSteps == 3
MaxStatsSteps == 3
MaxDiskSteps == 4
MaxGestureSteps == 5
MaxCreateSteps == 2
MaxLoadSteps == 1
MaxTextSteps == 2
MaxModeSteps == 5
MaxReloadSteps == 4
MaxShareSteps == 4

(* Program constants *)

max_history == 7
MaxRows == 9
WeightScale == 10 * 100
DEFAULT_CARD_WEIGHT == 100
card_weight_step == 10
card_weight_min == 10
card_weight_max == 200

None == "<None>"

-----------------------------------------------------------------------------
(* Python values: dictionaries, lists, strings *)

EmptyDict == [k \in {} |-> None]

DictSet(d, k, v) == [x \in (DOMAIN d) \cup {k} |-> IF x = k THEN v ELSE d[x]]

DictPop(d, k) == [x \in (DOMAIN d) \ {k} |-> d[x]]

Range(seq) == {seq[i] : i \in 1..Len(seq)}

Contains(seq, x) == \E i \in 1..Len(seq) : seq[i] = x

\* list.remove(x): drops the first element equal to x
FirstIndex(seq, x) == CHOOSE i \in 1..Len(seq) : seq[i] = x /\ \A j \in 1..(i-1) : seq[j] # x

ListRemove(seq, x) ==
    LET i == FirstIndex(seq, x)
    IN  SubSeq(seq, 1, i-1) \o SubSeq(seq, i+1, Len(seq))

Min(a, b) == IF a < b THEN a ELSE b

Max(a, b) == IF a > b THEN a ELSE b

\* A text typed by the user is a sequence of tokens; " " is white space.
RECURSIVE lstrip(_)
lstrip(raw) == IF raw # <<>> /\ Head(raw) = " " THEN lstrip(Tail(raw)) ELSE raw

RECURSIVE rstrip(_)
rstrip(raw) ==
    IF raw # <<>> /\ raw[Len(raw)] = " " THEN rstrip(SubSeq(raw, 1, Len(raw)-1)) ELSE raw

RECURSIVE join(_)
join(raw) == IF raw = <<>> THEN "" ELSE Head(raw) \o join(Tail(raw))

\* str.strip(): the text without leading and trailing white space
strip(raw) == join(rstrip(lstrip(raw)))

-----------------------------------------------------------------------------
(* Cards (src/cards/utils.py) *)

create_card(front, back) ==
    [front |-> front, back |-> back, marked |-> FALSE,
     weight |-> DEFAULT_CARD_WEIGHT * WeightScale]

HasCard(card_list, front_text) == \E i \in 1..Len(card_list) : card_list[i].front = front_text

\* index of the first card whose front matches; 0 when there is none
find_card(card_list, front_text) ==
    IF HasCard(card_list, front_text)
    THEN CHOOSE i \in 1..Len(card_list) :
            /\ card_list[i].front = front_text
            /\ \A j \in 1..(i-1) : card_list[j].front # front_text
    ELSE 0

RemoveAt(seq, i) == SubSeq(seq, 1, i-1) \o SubSeq(seq, i+1, Len(seq))

-----------------------------------------------------------------------------
(* Column labels (src/table/structure.py) *)

Digit == <<"0", "1", "2", "3", "4", "5", "6", "7", "8", "9">>

\* a / b for a >= 0, b > 0, rounded to the nearest integer, ties to even
RoundDiv(a, b) ==
    LET q == a \div b
        r == a % b
    IN  IF 2 * r < b THEN q
        ELSE IF 2 * r > b THEN q + 1
        ELSE IF q % 2 = 0 THEN q ELSE q + 1

\* f"{val:.1f}" for a value given in tenths, 0 <= tenths < 100
FormatTenths(tenths) == Digit[(tenths \div 10) + 1] \o "." \o Digit[(tenths % 10) + 1]

\* columns whose labels are cut off after the first decimal
ColumnsCutOff(num_columns) ==
    LET stepsN == IF num_columns > 1 THEN num_columns - 1 ELSE 1
    IN  [idx \in 1..num_columns |->
            FormatTenths((50 * stepsN - (idx - 1) * 40) \div stepsN)]

generate_columns(num_columns) ==
    LET stepsN == IF num_columns > 1 THEN num_columns - 1 ELSE 1
    IN  [idx \in 1..num_columns |->
            FormatTenths(RoundDiv(50 * stepsN - (idx - 1) * 40, stepsN))]

-----------------------------------------------------------------------------
(* Cards as json.load hands them over, and their normal form.  A value is   *)
(* [kind, units, text]: kind is its Python type, units its number in units  *)
(* of 1/WeightScale, text its characters; a float that is no number of      *)
(* finite size has text "inf", "-inf" or "nan".  A card is a dict of four   *)
(* values, "missing" for a key it lacks, or one value that is no dict.      *)

Value(kind, units, text) == [kind |-> kind, units |-> units, text |-> text]

\* float(x): a float, or the exception raised
py_float(x) ==
    CASE x.kind = "float" -> x
      [] x.kind = "int" -> IF x.text = "big" THEN Value("error", 0, "OverflowError")
                           ELSE Value("float", x.units, "")
      [] x.kind = "bool" -> Value("float", x.units, "")
      [] x.kind = "str" ->
            IF x.text \in {"150", " 150.0 "} THEN Value("float", 150 * WeightScale, "")
            ELSE IF x.text \in {"inf", "Infinity", "1e999"} THEN Value("float", 0, "inf")
            ELSE IF x.text = "nan" THEN Value("float", 0, "nan")
            ELSE Value("error", 0, "ValueError")
      [] OTHER -> Value("error", 0, "TypeError")

\* str(x) of the values of the model
py_str(x) ==
    CASE x.kind = "str" -> x.text
      [] x.kind = "none" -> "None"
      [] x.kind = "bool" -> IF x.units = 0 THEN "False" ELSE "True"
      [] x.kind = "list" -> "[]"
      [] x.kind = "int" -> IF x.text = "big" THEN "1" \o join([k \in 1..9 |-> "0"])
                           ELSE Digit[(x.units \div WeightScale) + 1]
      [] OTHER -> IF x.text # "" THEN x.text
                  ELSE Digit[(x.units \div WeightScale) + 1] \o ".0"

\* bool(x)
py_bool(x) ==
    CASE x.kind = "str" -> x.text # ""
      [] x.kind \in {"none", "list"} -> FALSE
      [] OTHER -> x.units # 0 \/ x.text # ""

Dict(front, back, marked, weight) ==
    [dict |-> TRUE, value |-> Value("none", 0, ""),
     front |-> front, back |-> back, marked |-> marked, weight |-> weight]

NoDict(value) ==
    [dict |-> FALSE, value |-> value, front |-> value, back |-> value, marked |-> value,
     weight |-> value]

\* create_card with the values of a card read from a file
created_card(front, back, marked, weight) ==
    IF py_float(weight).kind = "error" THEN NoDict(py_float(weight))
    ELSE Dict(Value("str", 0, front), Value("str", 0, back),
              Value("bool", IF marked THEN WeightScale ELSE 0, ""), py_float(weight))

\* the normal form of a card, or the exception that leaves normalize_card_entry
normalize_card_entry(card) ==
    LET default == Value("float", DEFAULT_CARD_WEIGHT * WeightScale, "")
        get(value, otherwise) == IF value.kind = "missing" THEN otherwise ELSE value
        weight == get(card.weight, default)
        weight_value == IF py_float(weight).text \in {"TypeError", "ValueError"}
                        THEN default ELSE py_float(weight)
    IN  IF ~card.dict
        THEN created_card(py_str(card.value), "", FALSE, default)
        ELSE IF weight_value.kind = "error" THEN NoDict(weight_value)
        ELSE created_card(py_str(get(card.front, Value("str", 0, ""))),
                          py_str(get(card.back, Value("str", 0, ""))),
                          py_bool(get(card.marked, Value("bool", 0, ""))),
                          weight_value)

\* the tree of the cards of a space with every card in normal form; an exception
\* ends the walk
normalize_cards_tree(cards) ==
    [row \in DOMAIN cards |-> [col \in DOMAIN cards[row] |->
        [idx \in 1..Len(cards[row][col]) |-> normalize_card_entry(cards[row][col][idx])]]]

-----------------------------------------------------------------------------
(* Statistics of a row (src/formula/ratio.py).  A column value is kept in   *)
(* tenths, a weight in units of 1/WeightScale, and a result as the exact    *)
(* fraction [n, d] with d > 0 of the float the code computes.               *)

\* float(col) succeeds: the labels "5.0" or "5" of one digit before and at most one
\* after the point; every other label of the model is no number
IsFloat(col) == col \in Range(Digit) \cup {FormatTenths(tenths) : tenths \in 0..99}

\* float(col), in tenths
float(col) ==
    IF col \in Range(Digit) THEN 10 * (FirstIndex(Digit, col) - 1)
    ELSE CHOOSE tenths \in 0..99 : FormatTenths(tenths) = col

effective_grade_value(raw_value) == IF raw_value = 50 THEN 60 ELSE raw_value

RECURSIVE GCD(_, _)
GCD(a, b) == IF b = 0 THEN a ELSE GCD(b, a % b)

\* the number n / d, d > 0, in lowest terms
Fraction(n, d) ==
    LET g == GCD(IF n < 0 THEN -n ELSE n, d)
    IN  [n |-> n \div g, d |-> d \div g]

RECURSIVE sum(_)
sum(values) == IF values = <<>> THEN 0 ELSE Head(values) + sum(Tail(values))

calculate_ratio(row_name, cards, columns) ==
    IF row_name \notin DOMAIN cards THEN [n |-> 0, d |-> 1]
    ELSE
    LET total_cards == sum([k \in 1..Len(columns) |-> Len(cards[row_name][columns[k]])])
        factors == [k \in 1..Len(columns) |->
                      IF IsFloat(columns[k])
                      THEN Len(cards[row_name][columns[k]])
                             * (50 - effective_grade_value(float(columns[k])))
                      ELSE 0]
    IN  IF total_cards = 0 THEN [n |-> 0, d |-> 1]
        ELSE Fraction(sum(factors), 30 * total_cards)

\* float(card.get("weight", 100.0))
CardWeight(card) ==
    IF "weight" \in DOMAIN card THEN card.weight ELSE DEFAULT_CARD_WEIGHT * WeightScale

\* an expected grade that also counts the cards of weight <= 0
GradeOfAllWeights(row_name, cards, columns) ==
    IF row_name \notin DOMAIN cards THEN [n |-> 0, d |-> 1]
    ELSE
    LET weights(k) == [c \in 1..Len(cards[row_name][columns[k]]) |->
                          CardWeight(cards[row_name][columns[k]][c])]
        total_weight == sum([k \in 1..Len(columns) |->
                                IF IsFloat(columns[k]) THEN sum(weights(k)) ELSE 0])
        weighted_sum == sum([k \in 1..Len(columns) |->
                                IF IsFloat(columns[k])
                                THEN effective_grade_value(float(columns[k])) * sum(weights(k))
                                ELSE 0])
    IN  IF total_weight = 0 THEN [n |-> 0, d |-> 1]
        ELSE Fraction(weighted_sum, 10 * total_weight)

calculate_expected_grade(row_name, cards, columns) ==
    IF row_name \notin DOMAIN cards THEN [n |-> 0, d |-> 1]
    ELSE
    LET weights(k) == [c \in 1..Len(cards[row_name][columns[k]]) |->
                          IF CardWeight(cards[row_name][columns[k]][c]) <= 0 THEN 0
                          ELSE CardWeight(cards[row_name][columns[k]][c])]
        total_weight == sum([k \in 1..Len(columns) |->
                                IF IsFloat(columns[k]) THEN sum(weights(k)) ELSE 0])
        weighted_sum == sum([k \in 1..Len(columns) |->
                                IF IsFloat(columns[k])
                                THEN effective_grade_value(float(columns[k])) * sum(weights(k))
                                ELSE 0])
    IN  IF total_weight = 0 THEN [n |-> 0, d |-> 1]
        ELSE Fraction(weighted_sum, 10 * total_weight)

\* sum(values) / len(values) of fractions
RECURSIVE Mean(_, _)
Mean(values, count) ==
    IF values = <<>> THEN [n |-> 0, d |-> 1]
    ELSE LET rest == Mean(Tail(values), count)
         IN  Fraction(Head(values).n * rest.d + rest.n * Head(values).d * count,
                      Head(values).d * count * rest.d)

\* f"{value:.2f}" of a fraction, 0 <= value < 10
FormatHundredths(value) ==
    LET h == RoundDiv(100 * value.n, value.d)
    IN  Digit[(h \div 100) + 1] \o "." \o Digit[((h \div 10) % 10) + 1] \o Digit[(h % 10) + 1]

\* _build_navigation_tree_impl: the average shown for a space, "-" for the dash that
\* stands for no value
space_average(table_data) ==
    IF table_data.rows = <<>> THEN "-"
    ELSE
    LET values == [k \in 1..Len(table_data.rows) |->
                     calculate_expected_grade(table_data.rows[k], table_data.cards,
                                              table_data.columns)]
    IN  FormatHundredths(Mean(values, Len(values)))

-----------------------------------------------------------------------------
(* The document *)

EmptyData == [tables |-> EmptyDict, table_order |-> <<>>, current_table |-> None]

EmptyRow(columns) == [c \in Range(columns) |-> <<>>]

EmptyTable(columns) ==
    [rows |-> <<>>, cards |-> EmptyDict, row_colors |-> EmptyDict, columns |-> columns]

\* deep equality of two documents (a dict compares without its key order)
DeepEqual(d1, d2) == d1.tables = d2.tables /\ d1.current_table = d2.current_table

\* self.data["tables"][name] = table
SetTable(doc, name, table) ==
    [doc EXCEPT !.tables = DictSet(doc.tables, name, table),
                !.table_order = IF name \in DOMAIN doc.tables THEN @ ELSE Append(@, name)]

\* self.data["tables"].pop(name, None)
PopTable(doc, name) ==
    IF name \in DOMAIN doc.tables
    THEN [doc EXCEPT !.tables = DictPop(doc.tables, name),
                     !.table_order = ListRemove(@, name)]
    ELSE doc

-----------------------------------------------------------------------------
(* The state of CardApp as one record, so that a handler is a composition  *)
(* of the calls it makes.                                                  *)

St == [heap |-> heap, data |-> data, selected_row_name |-> selected_row_name,
       history |-> history, future |-> future, save_file |-> save_file,
       delete_mode |-> delete_mode, mark_mode |-> mark_mode,
       moving_card |-> moving_card, drag_data |-> drag_data, disk |-> disk,
       forced_dialogs |-> forced_dialogs,
       grab |-> grab, log |-> <<>>, result |-> "none"]

Live(s) == s.heap[s.data]

\* a change made in place to the live document
SetLive(s, doc) == [s EXCEPT !.heap[s.data] = doc]

Note(s, event) == [s EXCEPT !.log = Append(@, event)]

EntryIds(entries) == {entries[i].data : i \in 1..Len(entries)}

Referenced(s) == {s.data} \cup EntryIds(s.history) \cup EntryIds(s.future)

\* the id copy.deepcopy gives its result: one no object has yet
NewId(s) == CHOOSE i \in 1..(Cardinality(DOMAIN s.heap) + 1) : i \notin DOMAIN s.heap

\* objects nothing refers to any more are gone
Collect(s) == [s EXCEPT !.heap = [i \in Referenced(s) |-> s.heap[i]]]

\* an entry with the document it holds
Resolve(hp, entry) == [data |-> hp[entry.data], selected_row |-> entry.selected_row]

ResolveAll(hp, entries) == [i \in 1..Len(entries) |-> Resolve(hp, entries[i])]

-----------------------------------------------------------------------------
(* Reading the live document *)

\* get_current_table_data() is not None
has_current_table(s) ==
    LET doc == Live(s)
    IN  doc.current_table # None /\ doc.current_table \in DOMAIN doc.tables

\* get_current_table_data(), where it is not None
get_current_table_data(s) == Live(s).tables[Live(s).current_table]

\* table_data[...] = ... on the table get_current_table_data() returned
SetCurrent(s, table_data) ==
    SetLive(s, [Live(s) EXCEPT !.tables[Live(s).current_table] = table_data])

\* a check of the selection that keeps what is selected
SelectionKept(s) == s

ensure_row_selection_valid(s) ==
    IF ~has_current_table(s) THEN [s EXCEPT !.selected_row_name = None]
    ELSE IF get_current_table_data(s).rows = <<>> THEN [s EXCEPT !.selected_row_name = None]
    ELSE IF ~Contains(get_current_table_data(s).rows, s.selected_row_name)
         THEN [s EXCEPT !.selected_row_name = None]
    ELSE s

\* _update_table_impl reads cards[row][col] of the selected row for every column
update_table_raises(s) ==
    /\ has_current_table(s)
    /\ LET table_data == get_current_table_data(s)
       IN
        /\ table_data.rows # <<>>
        /\ s.selected_row_name # None
        /\ Contains(table_data.rows, s.selected_row_name)
        /\ \/ s.selected_row_name \notin DOMAIN table_data.cards
           \/ \E c \in Range(table_data.columns) :
                 c \notin DOMAIN table_data.cards[s.selected_row_name]

\* what is left of SAVE_FILE when json.dump fails after open(SAVE_FILE, "w")
Truncated == [tables |-> EmptyDict, table_order |-> <<>>, current_table |-> "<partial>"]

\* a save that gives up the history when the file cannot be written
SaveOrForget(s) ==
    IF s.disk = "ok" THEN Note([s EXCEPT !.save_file = Live(s)], <<"save">>)
    ELSE Note([s EXCEPT !.history = <<>>], <<"save_error">>)

\* the file is written; a failure is caught and shown (messagebox.showerror), and the
\* caller goes on
save_data(s) ==
    IF s.disk = "ok" THEN Note([s EXCEPT !.save_file = Live(s)], <<"save">>)
    ELSE IF s.disk = "full" THEN Note([s EXCEPT !.save_file = Truncated], <<"save_error">>)
    ELSE Note(s, <<"save_error">>)

-----------------------------------------------------------------------------
(* Undo / redo history *)

ShallowCapture(s) == [data |-> s.data, selected_row |-> s.selected_row_name]

capture_history_state(s) == [data |-> NewId(s), selected_row |-> s.selected_row_name]

\* the heap once the snapshot's document exists
Captured(s, snapshot) == [s EXCEPT !.heap = DictSet(s.heap, snapshot.data, Live(s))]

\* a restore that does not write the file
ApplyWithoutSave(s, state) ==
    LET copy == NewId(s)
        s1 == [s EXCEPT !.heap = DictSet(s.heap, copy, s.heap[state.data]),
                        !.data = copy,
                        !.selected_row_name = state.selected_row]
    IN  ensure_row_selection_valid(s1)

\* a bound that drops the newest entry
KeepsOldest(entries) ==
    IF Len(entries) > max_history THEN SubSeq(entries, 1, max_history) ELSE entries

Bounded(entries) == IF Len(entries) > max_history THEN Tail(entries) ELSE entries

\* a record that leaves the future as it is
RecordKeepsFuture(s) ==
    LET snapshot == capture_history_state(s)
    IN  Note([Captured(s, snapshot) EXCEPT
                 !.history = Bounded(Append(s.history, snapshot))],
             <<"record", Resolve(Captured(s, snapshot).heap, snapshot)>>)

record_history(s) ==
    LET snapshot == capture_history_state(s)
    IN  Note([Captured(s, snapshot) EXCEPT
                 !.history = Bounded(Append(s.history, snapshot)),
                 !.future = <<>>],
             <<"record", Resolve(Captured(s, snapshot).heap, snapshot)>>)

apply_history_state(s, state) ==
    LET copy == NewId(s)
        s1 == [s EXCEPT !.heap = DictSet(s.heap, copy, s.heap[state.data]),
                        !.data = copy,
                        !.selected_row_name = state.selected_row]
        s2 == ensure_row_selection_valid(s1)
    IN  IF update_table_raises(s2) THEN Note(s2, <<"raise">>) ELSE save_data(s2)

\* an undo that hands the entry it restores on to the future
UndoDropsCurrent(s) ==
    IF s.history = <<>> THEN s
    ELSE LET state == s.history[Len(s.history)]
             s1 == [s EXCEPT !.future = Bounded(Append(s.future, state)),
                             !.history = SubSeq(s.history, 1, Len(s.history) - 1)]
         IN  apply_history_state(s1, state)

\* an undo that saves the current state for redo before it looks at the history
UndoAlwaysSavesFuture(s) ==
    LET snapshot == capture_history_state(s)
        s1 == [Captured(s, snapshot) EXCEPT !.future = Bounded(Append(s.future, snapshot))]
    IN  IF s.history = <<>> THEN s1
        ELSE apply_history_state(
                [s1 EXCEPT !.history = SubSeq(s1.history, 1, Len(s1.history) - 1)],
                s1.history[Len(s1.history)])

undo_action(s) ==
    IF s.history = <<>> THEN s
    ELSE LET snapshot == capture_history_state(s)
             s1 == [Captured(s, snapshot) EXCEPT !.future = Bounded(Append(s.future, snapshot))]
             state == s1.history[Len(s1.history)]
             s2 == [s1 EXCEPT !.history = SubSeq(s1.history, 1, Len(s1.history) - 1)]
         IN  apply_history_state(s2, state)

redo_action(s) ==
    IF s.future = <<>> THEN s
    ELSE LET snapshot == capture_history_state(s)
             s1 == [Captured(s, snapshot) EXCEPT !.history = Bounded(Append(s.history, snapshot))]
             state == s1.future[Len(s1.future)]
             s2 == [s1 EXCEPT !.future = SubSeq(s1.future, 1, Len(s1.future) - 1)]
         IN  apply_history_state(s2, state)

reset_history(s) == [s EXCEPT !.history = <<>>, !.future = <<>>]

\* what a handler reports: "ok" when it made its change, else the reason
Done(s) == [s EXCEPT !.result = "ok"]

Fail(s, reason) == [s EXCEPT !.result = reason]

Raise(s, error) == Note([s EXCEPT !.result = error], <<"raise">>)

-----------------------------------------------------------------------------
(* Rows ("Tabellen") of the current space *)

\* a row creation that records before it validates
CreateRowRecordsFirst(s0, row_text, color) ==
    LET s == record_history(Note(s0, <<"create_row_entry", row_text>>))
    IN
    IF ~has_current_table(s) THEN Fail(s, "Kein Space geladen!")
    ELSE
    LET table_data == get_current_table_data(s)
        row_name == strip(row_text)
    IN  IF row_name = "" THEN Fail(s, "Name darf nicht leer sein")
        ELSE IF Len(table_data.rows) >= MaxRows THEN Fail(s, "Maximal 9 Tabellen sind erlaubt!")
        ELSE IF Contains(table_data.rows, row_name) THEN Fail(s, "Tabelle existiert bereits")
        ELSE
        LET s2 == SetCurrent(s,
                    [table_data EXCEPT
                        !.rows = Append(@, row_name),
                        !.cards = DictSet(@, row_name, EmptyRow(table_data.columns)),
                        !.row_colors = DictSet(@, row_name, color)])
            s3 == save_data([s2 EXCEPT !.selected_row_name = row_name])
        IN  Done(ensure_row_selection_valid(s3))

create_row_entry(s0, row_text, color) ==
    LET s == Note(s0, <<"create_row_entry", row_text>>)
    IN
    IF ~has_current_table(s) THEN Fail(s, "Kein Space geladen!")
    ELSE
    LET table_data == get_current_table_data(s)
        row_name == strip(row_text)
    IN  IF row_name = "" THEN Fail(s, "Name darf nicht leer sein")
        ELSE IF Len(table_data.rows) >= MaxRows THEN Fail(s, "Maximal 9 Tabellen sind erlaubt!")
        ELSE IF Contains(table_data.rows, row_name) THEN Fail(s, "Tabelle existiert bereits")
        ELSE
        LET s1 == record_history(s)
            s2 == SetCurrent(s1,
                    [table_data EXCEPT
                        !.rows = Append(@, row_name),
                        !.cards = DictSet(@, row_name, EmptyRow(table_data.columns)),
                        !.row_colors = DictSet(@, row_name, color)])
            s3 == save_data([s2 EXCEPT !.selected_row_name = row_name])
        IN  Done(ensure_row_selection_valid(s3))

\* add_row: the dialog's "Anlegen"
add_row_submit(s, row_text, color) == create_row_entry(s, row_text, color)

\* the options dialog's "Tabelle erstellen"
submit_inline_row(s, row_text, color) ==
    LET desired_name == IF strip(row_text) = "" THEN "Neue Tabelle" ELSE strip(row_text)
    IN  create_row_entry(s, <<desired_name>>, color)

delete_row(s, row_name) ==
    IF ~has_current_table(s) THEN Fail(s, "Kein Space geladen!")
    ELSE
    LET table_data == get_current_table_data(s)
    IN  IF table_data.rows = <<>>
        THEN Fail(s, "Keine Tabelle vorhanden, die geloescht werden koennte.")
        ELSE IF row_name # "" /\ Contains(table_data.rows, row_name)
        THEN LET s1 == record_history(s)
                 s2 == SetCurrent(s1,
                         [table_data EXCEPT
                             !.rows = ListRemove(@, row_name),
                             !.cards = DictPop(@, row_name),
                             !.row_colors = DictPop(@, row_name)])
                 s3 == IF s2.selected_row_name = row_name
                       THEN [s2 EXCEPT !.selected_row_name = None] ELSE s2
             IN  Done(ensure_row_selection_valid(save_data(s3)))
        ELSE Fail(s, "Tabelle nicht gefunden.")

pick_row_color(s, row_name, new_hex) ==
    IF ~has_current_table(s) THEN Fail(s, "no table")
    ELSE
    LET table_data == get_current_table_data(s)
    IN  IF row_name \notin DOMAIN table_data.row_colors THEN Fail(s, "no color")
        ELSE IF new_hex = "" \/ new_hex = table_data.row_colors[row_name]
        THEN Fail(s, "same color")
        ELSE LET s1 == record_history(s)
                 s2 == SetCurrent(s1, [table_data EXCEPT !.row_colors[row_name] = new_hex])
             IN  Done(save_data(s2))

-----------------------------------------------------------------------------
(* Cards of the current space *)

HasCell(table_data, row_name, col_name) ==
    row_name \in DOMAIN table_data.cards /\ col_name \in DOMAIN table_data.cards[row_name]

\* the cards a rendered board shows: those of the selected row of the current space
Rendered(s, row_name, col_name) ==
    /\ has_current_table(s)
    /\ s.selected_row_name = row_name
    /\ Contains(get_current_table_data(s).rows, row_name)
    /\ ~update_table_raises(s)
    /\ Contains(get_current_table_data(s).columns, col_name)

add_card_to_row_by_name(s, row_name, card_name) ==
    IF ~has_current_table(s) THEN Fail(s, "Kein Space geladen!")
    ELSE
    LET table_data == get_current_table_data(s)
    IN  IF card_name = "" THEN Fail(s, "cancelled")
        ELSE
        LET first_col == table_data.columns[1]
            s1 == record_history(s)
        IN  IF ~HasCell(table_data, row_name, first_col) THEN Raise(s1, "KeyError")
            ELSE
            LET s2 == SetCurrent(s1,
                        [table_data EXCEPT !.cards[row_name][first_col] =
                            Append(@, create_card(card_name, ""))])
            IN  Done(save_data([s2 EXCEPT !.selected_row_name = row_name]))

\* the keys 1..9
add_card_to_row(s, row_index, card_name) ==
    IF ~has_current_table(s) THEN Fail(s, "Kein Space geladen!")
    ELSE IF row_index - 1 >= 0 /\ row_index - 1 < Len(get_current_table_data(s).rows)
    THEN add_card_to_row_by_name(s, get_current_table_data(s).rows[row_index], card_name)
    ELSE Fail(s, "Es existiert keine Tabelle.")

\* add_card_via_button: the row's button in the popup
select_line_and_close_by_name(s, row_name, card_name) ==
    add_card_to_row_by_name([s EXCEPT !.selected_row_name = row_name], row_name, card_name)

\* a parse that leaves the braces around the card block in place
ParseKeepsInnerBraces(raw_text) ==
    LET trimmed(payload) == rstrip(lstrip(payload))
        strip_braces(payload) ==
            LET inner == trimmed(payload)
            IN  IF inner # <<>> /\ Head(inner) = "{" /\ inner[Len(inner)] = "}" /\ Len(inner) > 1
                THEN trimmed(SubSeq(inner, 2, Len(inner) - 1))
                ELSE inner
        before(payload, sep) == SubSeq(payload, 1, FirstIndex(payload, sep) - 1)
        after(payload, sep) == SubSeq(payload, FirstIndex(payload, sep) + 1, Len(payload))
        RECURSIVE split(_)
        split(payload) ==
            IF ~Contains(payload, ";") THEN <<payload>>
            ELSE <<before(payload, ";")>> \o split(after(payload, ";"))
        pair(raw_line) ==
            LET line == trimmed(raw_line)
            IN  IF Contains(line, "::")
                THEN <<join(trimmed(before(line, "::"))), join(trimmed(after(line, "::")))>>
                ELSE <<join(line), "">>
        text == strip_braces(trimmed(raw_text))
        remainder == trimmed(after(text, "::"))
        pairs == [k \in 1..Len(split(remainder)) |-> pair(split(remainder)[k])]
        cards_payload == SelectSeq(pairs, LAMBDA entry : entry[1] # "")
    IN  IF trimmed(raw_text) = <<>>
        THEN [error |-> "Kein Inhalt zum Importieren gefunden."]
        ELSE IF ~Contains(text, "::")
        THEN [error |-> "Format ungueltig: '::' zwischen Space und Kartenblock fehlt."]
        ELSE IF strip(before(text, "::")) = ""
        THEN [error |-> "Space-Name konnte nicht gelesen werden."]
        ELSE IF remainder = <<>> THEN [error |-> "Der Kartenblock ist leer."]
        ELSE IF cards_payload = <<>>
        THEN [error |-> "Es konnten keine gueltigen Kartenzeilen gelesen werden."]
        ELSE [error |-> "", space_name |-> strip(before(text, "::")),
              cards_payload |-> cards_payload]

\* _parse_card_import_block: the name of the space and the (front, back) pairs of a
\* text of the form {Space::{front :: back; ...}}, or the error it raises.  The text
\* is a sequence of tokens, "::" , ";", "{" and "}" among them.
parse_card_import_block(raw_text) ==
    LET trimmed(payload) == rstrip(lstrip(payload))
        strip_braces(payload) ==
            LET inner == trimmed(payload)
            IN  IF inner # <<>> /\ Head(inner) = "{" /\ inner[Len(inner)] = "}" /\ Len(inner) > 1
                THEN trimmed(SubSeq(inner, 2, Len(inner) - 1))
                ELSE inner
        before(payload, sep) == SubSeq(payload, 1, FirstIndex(payload, sep) - 1)
        after(payload, sep) == SubSeq(payload, FirstIndex(payload, sep) + 1, Len(payload))
        RECURSIVE split(_)
        split(payload) ==
            IF ~Contains(payload, ";") THEN <<payload>>
            ELSE <<before(payload, ";")>> \o split(after(payload, ";"))
        pair(raw_line) ==
            LET line == trimmed(raw_line)
            IN  IF Contains(line, "::")
                THEN <<join(trimmed(before(line, "::"))), join(trimmed(after(line, "::")))>>
                ELSE <<join(line), "">>
        text == strip_braces(trimmed(raw_text))
        remainder == strip_braces(after(text, "::"))
        pairs == [k \in 1..Len(split(remainder)) |-> pair(split(remainder)[k])]
        cards_payload == SelectSeq(pairs, LAMBDA entry : entry[1] # "")
    IN  IF trimmed(raw_text) = <<>>
        THEN [error |-> "Kein Inhalt zum Importieren gefunden."]
        ELSE IF ~Contains(text, "::")
        THEN [error |-> "Format ungueltig: '::' zwischen Space und Kartenblock fehlt."]
        ELSE IF strip(before(text, "::")) = ""
        THEN [error |-> "Space-Name konnte nicht gelesen werden."]
        ELSE IF remainder = <<>> THEN [error |-> "Der Kartenblock ist leer."]
        ELSE IF cards_payload = <<>>
        THEN [error |-> "Es konnten keine gueltigen Kartenzeilen gelesen werden."]
        ELSE [error |-> "", space_name |-> strip(before(text, "::")),
              cards_payload |-> cards_payload]

\* prompt_row is the row chosen in the dialog that asks for one, None when it is closed
apply_card_import(s, space_name, cards_payload, prompt_row) ==
    IF space_name \notin DOMAIN Live(s).tables THEN Fail(s, "Space existiert nicht.")
    ELSE
    LET table_data == Live(s).tables[space_name]
        rows == table_data.rows
        row_name == IF Live(s).current_table = space_name /\ Contains(rows, s.selected_row_name)
                    THEN s.selected_row_name ELSE prompt_row
        columns == table_data.columns
    IN  IF rows = <<>> THEN Fail(s, "Space enthaelt keine Tabellen zum Befuellen.")
        ELSE IF row_name = None \/ ~Contains(rows, row_name) THEN Fail(s, "cancelled")
        ELSE IF columns = <<>> THEN Fail(s, "Der Space verfuegt ueber keine Spalten.")
        ELSE
        LET filled == [col \in Range(columns) \cup
                              (IF row_name \in DOMAIN table_data.cards
                               THEN DOMAIN table_data.cards[row_name] ELSE {}) |->
                          IF HasCell(table_data, row_name, col)
                          THEN table_data.cards[row_name][col] ELSE <<>>]
            cards == DictSet(table_data.cards, row_name, filled)
            s1 == SetLive(s, [Live(s) EXCEPT !.tables[space_name].cards = cards])
            RECURSIVE unique(_, _)
            unique(payload, seen) ==
                IF payload = <<>> THEN <<>>
                ELSE IF Head(payload)[1] \in seen THEN unique(Tail(payload), seen)
                ELSE <<Head(payload)>> \o unique(Tail(payload), seen \cup {Head(payload)[1]})
            existing_fronts ==
                {filled[col][i].front : <<col, i>> \in
                    {cell \in Range(columns) \X (1..9) : cell[2] <= Len(filled[cell[1]])}}
            unique_payload == unique(cards_payload, existing_fronts)
            created == [k \in 1..Len(unique_payload) |->
                           create_card(unique_payload[k][1], unique_payload[k][2])]
        IN  IF unique_payload = <<>> THEN Fail(s1, "Keine neuen Karten")
            ELSE
            LET s2 == record_history(s1)
                s3 == SetLive(s2, [Live(s2) EXCEPT
                          !.tables[space_name].cards[row_name][columns[1]] = @ \o created,
                          !.current_table = space_name])
                s4 == save_data([s3 EXCEPT !.selected_row_name = row_name])
            IN  IF update_table_raises(s4) THEN Raise(s4, "KeyError")
                ELSE Done(Note(s4, <<"imported", Len(unique_payload),
                                     Len(cards_payload) - Len(unique_payload)>>))

\* the dialog "Karten importieren" and its button "Importieren" (confirm_import)
import_cards_via_text(s, raw_text, prompt_row) ==
    IF DOMAIN Live(s).tables = {}
    THEN Fail(s, "Keine Spaces vorhanden, in die importiert werden koennte.")
    ELSE
    LET parsed == parse_card_import_block(raw_text)
    IN  IF parsed.error # "" THEN Fail(s, parsed.error)
        ELSE IF parsed.space_name \notin DOMAIN Live(s).tables
        THEN Fail(s, "Space existiert nicht.")
        ELSE apply_card_import(s, parsed.space_name, parsed.cards_payload, prompt_row)

\* round(x, 2) of a weight kept in units of 1/WeightScale
Round2(w) == RoundDiv(w * 100, WeightScale) * (WeightScale \div 100)

\* float(card_dict.get("weight", 100.0)), weights in units of 1/WeightScale
extract_card_weight(card_dict) ==
    IF "weight" \in DOMAIN card_dict THEN card_dict.weight
    ELSE DEFAULT_CARD_WEIGHT * WeightScale

\* an adjustment that only keeps the weight from falling below the minimum
AdjustWithoutUpperClamp(s, row_name, col_name, card_front, delta) ==
    IF ~has_current_table(s) THEN Fail(s, "no table")
    ELSE
    LET table_data == get_current_table_data(s)
    IN  IF ~HasCell(table_data, row_name, col_name) THEN Fail(s, "no cell")
        ELSE
        LET i == find_card(table_data.cards[row_name][col_name], card_front)
        IN  IF i = 0 THEN Fail(s, "no card")
            ELSE
            LET s1 == record_history(s)
                current_weight == extract_card_weight(table_data.cards[row_name][col_name][i])
                new_weight == Max(card_weight_min * WeightScale, current_weight + delta)
                s2 == SetCurrent(s1,
                        [table_data EXCEPT !.cards[row_name][col_name][i] =
                            DictSet(@, "weight", Round2(new_weight))])
            IN  Done(save_data(s2))

adjust_card_weight(s, row_name, col_name, card_front, delta) ==
    IF ~has_current_table(s) THEN Fail(s, "no table")
    ELSE
    LET table_data == get_current_table_data(s)
    IN  IF ~HasCell(table_data, row_name, col_name) THEN Fail(s, "no cell")
        ELSE
        LET i == find_card(table_data.cards[row_name][col_name], card_front)
        IN  IF i = 0 THEN Fail(s, "no card")
            ELSE
            LET s1 == record_history(s)
                current_weight == extract_card_weight(table_data.cards[row_name][col_name][i])
                new_weight == Max(card_weight_min * WeightScale,
                                  Min(card_weight_max * WeightScale, current_weight + delta))
                s2 == SetCurrent(s1,
                        [table_data EXCEPT !.cards[row_name][col_name][i] =
                            DictSet(@, "weight", Round2(new_weight))])
            IN  Done(save_data(s2))

\* the second half of a click-to-move: the remembered card goes to the clicked cell
CompleteMove(s, row_name, col_name) ==
    LET table_data == get_current_table_data(s)
        old_row == s.moving_card[1]
        old_col == s.moving_card[2]
        card_front == s.moving_card[3]
    IN  IF ~HasCell(table_data, old_row, old_col) THEN Raise(s, "KeyError")
        ELSE
        LET i == find_card(table_data.cards[old_row][old_col], card_front)
        IN  IF i = 0 THEN Fail(s, "no card")
            ELSE
            LET s1 == record_history(s)
                old_card == table_data.cards[old_row][old_col][i]
                removed == [table_data EXCEPT !.cards[old_row][old_col] = RemoveAt(@, i)]
            IN  IF ~HasCell(removed, row_name, col_name)
                THEN Raise(SetCurrent(s1, removed), "KeyError")
                ELSE
                LET s2 == SetCurrent(s1,
                            [removed EXCEPT !.cards[row_name][col_name] = Append(@, old_card)])
                IN  Done(save_data([s2 EXCEPT !.moving_card = <<>>]))

on_column_click(s, row_name, col_name) ==
    IF s.moving_card # <<>>
    THEN IF ~has_current_table(s) THEN Fail(s, "no table")
         ELSE CompleteMove(s, row_name, col_name)
    ELSE Fail(s, "nothing to move")

on_card_click(s, row_name, col_name, card_front) ==
    IF ~has_current_table(s) THEN Fail(s, "no table")
    ELSE
    LET table_data == get_current_table_data(s)
    IN  IF ~HasCell(table_data, row_name, col_name) THEN Raise(s, "KeyError")
        ELSE
        LET i == find_card(table_data.cards[row_name][col_name], card_front)
        IN  IF i = 0 THEN Fail(s, "no card")
            ELSE IF s.mark_mode
            THEN LET s1 == record_history(s)
                     s2 == SetCurrent(s1,
                             [table_data EXCEPT !.cards[row_name][col_name][i].marked = ~@])
                 IN  Done(save_data(s2))
            ELSE IF s.delete_mode
            THEN LET s1 == record_history(s)
                     s2 == SetCurrent(s1,
                             [table_data EXCEPT !.cards[row_name][col_name] = RemoveAt(@, i)])
                 IN  Done(save_data([s2 EXCEPT !.delete_mode = FALSE]))
            ELSE IF s.moving_card = <<>>
            THEN Fail([s EXCEPT !.moving_card = <<row_name, col_name, card_front>>], "selected")
            ELSE CompleteMove(s, row_name, col_name)

move_card_between_columns(s, source_row, source_col, card_front, target_row, target_col) ==
    IF ~has_current_table(s) THEN Fail(s, "no table")
    ELSE IF source_row = target_row /\ source_col = target_col THEN Fail(s, "same cell")
    ELSE
    LET table_data == get_current_table_data(s)
    IN  IF ~HasCell(table_data, target_row, target_col) THEN Fail(s, "no cell")
        ELSE IF ~HasCell(table_data, source_row, source_col) THEN Raise(s, "KeyError")
        ELSE
        LET i == find_card(table_data.cards[source_row][source_col], card_front)
        IN  IF i = 0 THEN Fail(s, "no card")
            ELSE
            LET s1 == record_history(s)
                old_card == table_data.cards[source_row][source_col][i]
                s2 == SetCurrent(s1,
                        [table_data EXCEPT
                            !.cards[source_row][source_col] = RemoveAt(@, i),
                            !.cards[target_row][target_col] = Append(@, old_card)])
            IN  Done(save_data(s2))

on_card_press(s, row_name, col_name, card_front) ==
    IF s.delete_mode \/ s.mark_mode THEN [s EXCEPT !.drag_data = <<>>]
    ELSE [s EXCEPT !.drag_data = [row |-> row_name, col |-> col_name, card |-> card_front,
                                  moved |-> FALSE],
                   !.moving_card = <<>>]

\* far: the pointer is more than 8 pixels from where the button went down
on_card_motion(s, far) ==
    IF s.drag_data = <<>> THEN s
    ELSE IF ~s.drag_data.moved /\ far THEN [s EXCEPT !.drag_data.moved = TRUE]
    ELSE s

reset_drag_state(s) == [s EXCEPT !.drag_data = <<>>]

\* target: the column frame under the pointer, <<row, col>>, or <<>> for none
on_card_release(s, row_name, col_name, card_front, target) ==
    IF s.drag_data # <<>> /\ s.drag_data.moved
    THEN IF target # <<>>
         THEN reset_drag_state(
                move_card_between_columns(s, row_name, col_name, card_front,
                                          target[1], target[2]))
         ELSE Fail(reset_drag_state(s), "dropped outside")
    ELSE on_card_click(reset_drag_state(s), row_name, col_name, card_front)

\* _open_card_back_editor and its "Speichern"
persist_changes(s, row_name, col_name, card_front, new_text) ==
    IF ~has_current_table(s) THEN Fail(s, "no table")
    ELSE
    LET table_data == get_current_table_data(s)
    IN  IF ~HasCell(table_data, row_name, col_name) THEN Raise(s, "KeyError")
        ELSE
        LET i == find_card(table_data.cards[row_name][col_name], card_front)
        IN  IF i = 0 THEN Fail(s, "no card")
            ELSE IF new_text = table_data.cards[row_name][col_name][i].back
            THEN Fail(s, "Keine Aenderungen.")
            ELSE LET s1 == record_history(s)
                     s2 == SetCurrent(s1,
                             [table_data EXCEPT !.cards[row_name][col_name][i].back = new_text])
                 IN  Done(save_data(s2))

cancel_operations(s) == [s EXCEPT !.delete_mode = FALSE, !.moving_card = <<>>]

toggle_delete_mode(s) ==
    LET s1 == [s EXCEPT !.delete_mode = ~@]
    IN  IF s1.delete_mode /\ s1.mark_mode THEN [s1 EXCEPT !.mark_mode = FALSE] ELSE s1

\* a mark mode that leaves delete mode on
MarkBesideDelete(s) == [s EXCEPT !.mark_mode = ~@]

toggle_mark_mode(s) ==
    LET s1 == [s EXCEPT !.mark_mode = ~@]
    IN  IF s1.mark_mode /\ s1.delete_mode THEN [s1 EXCEPT !.delete_mode = FALSE] ELSE s1

-----------------------------------------------------------------------------
(* Spaces ("tables" of the document) *)

\* str.isdigit() and int() on the characters of the column-count field
isdigit(chars) == chars # <<>> /\ \A i \in 1..Len(chars) : chars[i] \in Range(Digit)

RECURSIVE int(_)
int(chars) ==
    IF chars = <<>> THEN 0
    ELSE 10 * int(SubSeq(chars, 1, Len(chars) - 1)) + (FirstIndex(Digit, chars[Len(chars)]) - 1)

\* the rows prepared in the dialog, each with its cards and a colour
RECURSIVE WithPendingRows(_, _, _)
WithPendingRows(table, pending_rows, color) ==
    IF pending_rows = <<>> THEN table
    ELSE WithPendingRows(
            [table EXCEPT !.rows = Append(@, Head(pending_rows)),
                          !.cards = DictSet(@, Head(pending_rows), EmptyRow(table.columns)),
                          !.row_colors = DictSet(@, Head(pending_rows), color)],
            Tail(pending_rows), color)

\* close_dialog on a "Neuer Space" dialog: the grab is released
close_dialog(s, skip_history) ==
    IF skip_history
    THEN [s EXCEPT !.forced_dialogs = @ - 1, !.grab = FALSE]
    ELSE s

\* new_table: the dialog's "Erstellen"
new_table_submit(s, name_text, cols_text, pending_rows, color, skip_history) ==
    LET table_name == strip(name_text)
        cols == rstrip(lstrip(cols_text))
    IN  IF table_name = "" THEN Fail(s, "Name darf nicht leer sein")
        ELSE IF table_name \in DOMAIN Live(s).tables THEN Fail(s, "Space existiert bereits")
        ELSE IF ~isdigit(cols) THEN Fail(s, "Spaltenzahl muss numerisch sein")
        ELSE IF int(cols) < 2 THEN Fail(s, "Mindestens 2 Spalten erforderlich")
        ELSE
        LET columns == generate_columns(int(cols))
            s1 == IF ~skip_history THEN record_history(s) ELSE s
            table == WithPendingRows(EmptyTable(columns), pending_rows, color)
            s2 == SetLive(s1, [SetTable(Live(s1), table_name, table)
                                  EXCEPT !.current_table = table_name])
            s3 == [s2 EXCEPT !.selected_row_name =
                      IF pending_rows # <<>> THEN pending_rows[1] ELSE None]
        IN  Done(close_dialog(save_data(s3), skip_history))

\* new_table(skip_history=True): the dialog opens and takes the grab
open_forced_dialog(s) == [s EXCEPT !.forced_dialogs = @ + 1, !.grab = TRUE]

delete_table_via_menu(s, table_name) ==
    IF table_name = "" THEN Fail(s, "cancelled")
    ELSE
    LET s1 == record_history(s)
        popped == PopTable(Live(s1), table_name)
        s2 == IF popped.current_table = table_name
              THEN IF DOMAIN popped.tables # {}
                   THEN SetLive(s1, [popped EXCEPT !.current_table = popped.table_order[1]])
                   ELSE open_forced_dialog(
                            SetLive(s1, [popped EXCEPT !.current_table = None]))
              ELSE SetLive(s1, popped)
        s3 == save_data([s2 EXCEPT !.selected_row_name = None])
    IN  Done(ensure_row_selection_valid(s3))

duplicate_current_table(s, new_name) ==
    LET doc == Live(s)
    IN  IF doc.current_table = None THEN Fail(s, "Kein Space ausgewaehlt.")
        ELSE IF doc.current_table \notin DOMAIN doc.tables
        THEN Fail(s, "Der aktuelle Space ist leer oder ungueltig.")
        ELSE IF new_name = "" THEN Fail(s, "cancelled")
        ELSE IF new_name \in DOMAIN doc.tables
        THEN Fail(s, "Ein Space mit diesem Namen existiert bereits.")
        ELSE
        LET s1 == record_history(s)
            s2 == SetLive(s1, [SetTable(Live(s1), new_name, doc.tables[doc.current_table])
                                  EXCEPT !.current_table = new_name])
        IN  Done(save_data([s2 EXCEPT !.selected_row_name = None]))

\* the keys a space read from a file must have
TableKeys == {"rows", "cards", "row_colors", "columns"}

import_table_from_file(s, table_payload, table_name, overwrite) ==
    IF ~(TableKeys \subseteq DOMAIN table_payload)
    THEN Fail(s, "Die importierte Datei enthaelt keinen gueltigen Space.")
    ELSE IF table_name = "" THEN Fail(s, "cancelled")
    ELSE IF table_name \in DOMAIN Live(s).tables /\ ~overwrite THEN Fail(s, "cancelled")
    ELSE
    LET s1 == record_history(s)
        s2 == SetLive(s1, [SetTable(Live(s1), table_name, table_payload)
                              EXCEPT !.current_table = table_name])
    IN  Done(save_data([s2 EXCEPT !.selected_row_name = None]))

\* transfer_table_between_spaces: the dialog's "Ausfuehren"
\* a transfer that does not look at the number of rows of the destination
TransferWithoutCapacityCheck(s, action, source, dest, table_name, name_text, color) ==
    LET doc == Live(s)
        desired_name == IF strip(name_text) = "" THEN table_name ELSE strip(name_text)
    IN  IF source = "" \/ dest = "" \/ table_name = ""
        THEN Fail(s, "Bitte Quelle, Tabelle und Ziel auswaehlen.")
        ELSE IF source = dest THEN Fail(s, "Quelle und Ziel muessen unterschiedlich sein.")
        ELSE IF source \notin DOMAIN doc.tables \/ dest \notin DOMAIN doc.tables
        THEN Fail(s, "Ungueltige Space-Auswahl.")
        ELSE
        LET src_data == doc.tables[source]
            dest_data == doc.tables[dest]
        IN  IF ~Contains(src_data.rows, table_name)
            THEN Fail(s, "Die ausgewaehlte Tabelle existiert nicht mehr.")
            ELSE IF Contains(dest_data.rows, desired_name)
            THEN Fail(s, "Im Ziel existiert bereits eine Tabelle mit diesem Namen.")
            ELSE IF src_data.columns # dest_data.columns
            THEN Fail(s, "Spaces haben unterschiedliche Spalten.")
            ELSE
            LET s1 == record_history(s)
                source_cards == IF table_name \in DOMAIN src_data.cards
                                THEN src_data.cards[table_name] ELSE EmptyDict
                cloned_cards == [col \in Range(dest_data.columns) |->
                                    IF col \in DOMAIN source_cards
                                    THEN source_cards[col] ELSE <<>>]
                new_dest == [dest_data EXCEPT
                                !.rows = Append(@, desired_name),
                                !.cards = DictSet(@, desired_name, cloned_cards),
                                !.row_colors = DictSet(@, desired_name,
                                    IF table_name \in DOMAIN src_data.row_colors
                                    THEN src_data.row_colors[table_name] ELSE color)]
                new_src == IF action = "copy" THEN src_data
                           ELSE [src_data EXCEPT
                                    !.rows = ListRemove(@, table_name),
                                    !.cards = DictPop(@, table_name),
                                    !.row_colors = DictPop(@, table_name)]
                s2 == SetLive(s1, [doc EXCEPT !.tables[dest] = new_dest,
                                              !.tables[source] = new_src])
                s3 == IF action # "copy" /\ doc.current_table = source
                         /\ s2.selected_row_name = table_name
                      THEN [s2 EXCEPT !.selected_row_name = None] ELSE s2
                s4 == IF doc.current_table = dest
                      THEN [s3 EXCEPT !.selected_row_name = desired_name] ELSE s3
            IN  Done(ensure_row_selection_valid(save_data(s4)))

submit_transfer(s, action, source, dest, table_name, name_text, color) ==
    LET doc == Live(s)
        desired_name == IF strip(name_text) = "" THEN table_name ELSE strip(name_text)
    IN  IF source = "" \/ dest = "" \/ table_name = ""
        THEN Fail(s, "Bitte Quelle, Tabelle und Ziel auswaehlen.")
        ELSE IF source = dest THEN Fail(s, "Quelle und Ziel muessen unterschiedlich sein.")
        ELSE IF source \notin DOMAIN doc.tables \/ dest \notin DOMAIN doc.tables
        THEN Fail(s, "Ungueltige Space-Auswahl.")
        ELSE
        LET src_data == doc.tables[source]
            dest_data == doc.tables[dest]
        IN  IF ~Contains(src_data.rows, table_name)
            THEN Fail(s, "Die ausgewaehlte Tabelle existiert nicht mehr.")
            ELSE IF Len(dest_data.rows) >= MaxRows
            THEN Fail(s, "Der Ziel-Space ist bereits voll (9 Tabellen).")
            ELSE IF Contains(dest_data.rows, desired_name)
            THEN Fail(s, "Im Ziel existiert bereits eine Tabelle mit diesem Namen.")
            ELSE IF src_data.columns # dest_data.columns
            THEN Fail(s, "Spaces haben unterschiedliche Spalten.")
            ELSE
            LET s1 == record_history(s)
                source_cards == IF table_name \in DOMAIN src_data.cards
                                THEN src_data.cards[table_name] ELSE EmptyDict
                cloned_cards == [col \in Range(dest_data.columns) |->
                                    IF col \in DOMAIN source_cards
                                    THEN source_cards[col] ELSE <<>>]
                new_dest == [dest_data EXCEPT
                                !.rows = Append(@, desired_name),
                                !.cards = DictSet(@, desired_name, cloned_cards),
                                !.row_colors = DictSet(@, desired_name,
                                    IF table_name \in DOMAIN src_data.row_colors
                                    THEN src_data.row_colors[table_name] ELSE color)]
                new_src == IF action = "copy" THEN src_data
                           ELSE [src_data EXCEPT
                                    !.rows = ListRemove(@, table_name),
                                    !.cards = DictPop(@, table_name),
                                    !.row_colors = DictPop(@, table_name)]
                s2 == SetLive(s1, [doc EXCEPT !.tables[dest] = new_dest,
                                              !.tables[source] = new_src])
                s3 == IF action # "copy" /\ doc.current_table = source
                         /\ s2.selected_row_name = table_name
                      THEN [s2 EXCEPT !.selected_row_name = None] ELSE s2
                s4 == IF doc.current_table = dest
                      THEN [s3 EXCEPT !.selected_row_name = desired_name] ELSE s3
            IN  Done(ensure_row_selection_valid(save_data(s4)))

set_active_table(s, table_name) ==
    IF table_name \notin DOMAIN Live(s).tables THEN s
    ELSE
    LET s1 == IF Live(s).current_table # table_name
              THEN save_data([SetLive(s, [Live(s) EXCEPT !.current_table = table_name])
                                 EXCEPT !.selected_row_name = None])
              ELSE s
    IN  ensure_row_selection_valid(s1)

\* a node of the navigation tree is selected: a space, or a row of a space
\* a selection in the tree that takes the row and leaves the space
SelectRowOnly(s, table_name, row_name) == [s EXCEPT !.selected_row_name = row_name]

on_tree_select(s, table_name, row_name) ==
    [set_active_table(s, table_name) EXCEPT !.selected_row_name = row_name]

load_table_via_menu(s, table_name) ==
    IF table_name = "" THEN s ELSE set_active_table(s, table_name)

\* load_data: self.data becomes a new object read from the save file; a file
\* that is not JSON counts as no file
load_data(s, file) ==
    LET loaded == NewId(s)
        content == IF file = Truncated THEN EmptyData ELSE file
    IN  [s EXCEPT !.heap = DictSet(s.heap, loaded, content), !.data = loaded]

\* every card of every space through normalize_card_entry; the cards of a
\* document are dicts with all four keys, so each keeps its four values
convert_old_cards_format(s) ==
    SetLive(s, [Live(s) EXCEPT !.tables =
        [n \in DOMAIN @ |-> [@[n] EXCEPT !.cards =
            [r \in DOMAIN @ |-> [c \in DOMAIN @[r] |->
                [k \in 1..Len(@[r][c]) |->
                    [front |-> @[r][c][k].front, back |-> @[r][c][k].back,
                     marked |-> @[r][c][k].marked, weight |-> @[r][c][k].weight]]]]]]])

\* menu "Neu laden"
load_data_or_create_new_table(s) ==
    LET s1 == reset_history(convert_old_cards_format(load_data(s, s.save_file)))
        s2 == IF Live(s1).table_order = <<>> THEN open_forced_dialog(s1) ELSE s1
        s3 == IF Live(s2).current_table = None /\ Live(s2).table_order # <<>>
              THEN SetLive(s2, [Live(s2) EXCEPT !.current_table = Live(s2).table_order[1]])
              ELSE s2
        s4 == ensure_row_selection_valid(s3)
    IN  IF update_table_raises(s4) THEN Raise(s4, "KeyError") ELSE Done(s4)

\* menu "Version laden": entry is the stored version picked and confirmed
load_history_state(s, entry) ==
    LET loaded == NewId(s)
        s1 == [s EXCEPT !.heap = DictSet(s.heap, loaded, entry), !.data = loaded]
        s2 == ensure_row_selection_valid(save_data(reset_history(s1)))
    IN  IF update_table_raises(s2) THEN Raise(s2, "KeyError") ELSE Done(s2)

\* menu "Speicherdatei wechseln": "yes" writes the document to a new file, "no"
\* reads an existing file, which is the save file from then on
change_save_location(s, user_choice, file) ==
    IF user_choice = "yes" THEN Done(save_data(s))
    ELSE IF user_choice = "no" THEN Done(load_data([s EXCEPT !.save_file = file], file))
    ELSE Fail(s, "no change")

-----------------------------------------------------------------------------
(* Documents the program starts from (what load_data reads) and the inputs  *)
(* its handlers are given.                                                  *)

Card(front) == create_card(front, "")

TableOf(columns, rows) ==
    [rows |-> rows,
     cards |-> [r \in Range(rows) |-> EmptyRow(columns)],
     row_colors |-> [r \in Range(rows) |-> "#c0"],
     columns |-> columns]

\* space "A": two rows, two cards in the first column of "r1"
TableA ==
    [TableOf(generate_columns(2), <<"r1", "r2">>)
        EXCEPT !.cards["r1"]["5.0"] = <<Card("q1"), Card("q2")>>]

\* space "B": one row short of the maximum
TableB == TableOf(generate_columns(2), <<"r1", "r2", "r3", "r4", "r5", "r6", "r7", "r8">>)

DocMain(current) ==
    [tables |-> [n \in {"A", "B"} |-> IF n = "A" THEN TableA ELSE TableB],
     table_order |-> <<"A", "B">>,
     current_table |-> current]

\* one space, one row, one card
DocSmall ==
    [tables |-> [n \in {"A"} |->
        [TableOf(generate_columns(2), <<"r1">>) EXCEPT !.cards["r1"]["5.0"] = <<Card("q1")>>]],
     table_order |-> <<"A">>,
     current_table |-> "A"]

\* weights a file can hold: load_data keeps every number it finds
DocLegacy ==
    [DocSmall EXCEPT !.tables["A"].cards["r1"]["5.0"] =
        <<[Card("q1") EXCEPT !.weight = 5004], [Card("q2") EXCEPT !.weight = 199996]>>]

\* three spaces: "B" is one row short of the maximum and has no row "r1", the
\* columns of "C" differ from those of "A" and "B"
DocTransfer ==
    [tables |-> [n \in {"A", "B", "C"} |->
                    IF n = "A" THEN TableA
                    ELSE IF n = "B"
                    THEN TableOf(generate_columns(2),
                                 <<"r2", "r3", "r4", "r5", "r6", "r7", "r8", "r9">>)
                    ELSE TableOf(generate_columns(3), <<"r1">>)],
     table_order |-> <<"A", "B", "C">>,
     current_table |-> "A"]

\* a card with a weight given in units of 1/WeightScale
Weighted(front, weight) == [Card(front) EXCEPT !.weight = weight]

\* space "A": 2, 0 and 1 cards of weight 100 in the columns 5.0, 3.0, 1.0 of "r1", no
\* card in "r2"; space "B": weights 0, -50 and 250 as an older file can hold them
DocStats ==
    [tables |-> [n \in {"A", "B"} |->
        IF n = "A"
        THEN [TableOf(generate_columns(3), <<"r1", "r2">>) EXCEPT
                !.cards["r1"]["5.0"] = <<Card("q1"), Card("q2")>>,
                !.cards["r1"]["1.0"] = <<Card("q3")>>]
        ELSE [TableOf(generate_columns(3), <<"r1">>) EXCEPT
                !.cards["r1"]["5.0"] = <<Weighted("q1", 0)>>,
                !.cards["r1"]["3.0"] = <<Weighted("q2", -50 * WeightScale)>>,
                !.cards["r1"]["1.0"] = <<Weighted("q3", 250 * WeightScale)>>]],
     table_order |-> <<"A", "B">>,
     current_table |-> "A"]

\* a file to import whose third column has a label that is no number
PayloadMixed ==
    [TableOf(<<"5.0", "1.0", "x">>, <<"r1">>) EXCEPT
        !.cards["r1"]["1.0"] = <<Card("q1")>>,
        !.cards["r1"]["x"] = <<Card("q2")>>]

LoadedDocs == {EmptyData, DocMain("A"), DocMain("B")}

\* spaces a file offered to import_table_from_file can hold
PayloadSmall == TableOf(generate_columns(2), <<"r1">>)

PayloadTenRows ==
    TableOf(generate_columns(2), <<"r1", "r2", "r3", "r4", "r5", "r6", "r7", "r8", "r9", "r10">>)

PayloadNoCards == [PayloadSmall EXCEPT !.cards = EmptyDict, !.row_colors = EmptyDict]

PayloadNoKeys == [rows |-> <<"r1">>]

\* a card of an older file format, with no weight
PayloadLegacy ==
    [TableOf(generate_columns(2), <<"r1">>) EXCEPT
        !.cards["r1"]["5.0"] = <<[front |-> "q3", back |-> "", marked |-> FALSE]>>]

\* a file whose row has a card list for the first of its two columns only
PayloadPartial ==
    [PayloadSmall EXCEPT !.cards = [r \in {"r1"} |-> [c \in {"5.0"} |-> <<Card("q1")>>]]]

Payloads == {PayloadSmall, PayloadTenRows, PayloadNoCards, PayloadNoKeys}

\* texts pasted into the dialog "Karten importieren"
CardTexts ==
    {<<"{", "A", "::", "{", "q3", " ", "::", "b", ";", " ", "q1", ";", "}", "}">>,
     <<"A", "::", "q1">>,
     <<"Z", "::", "q3">>,
     <<"q3">>}

\* values json.load can give for a key of a card
RawValues ==
    {Value("missing", 0, ""), Value("none", 0, ""), Value("list", 0, ""),
     Value("str", 0, ""), Value("str", 0, "q1"), Value("str", 0, "150"),
     Value("str", 0, "inf"), Value("str", 0, "nan"),
     Value("bool", WeightScale, ""), Value("int", 5 * WeightScale, ""),
     Value("int", 0, "big"),
     Value("float", 5 * WeightScale, ""), Value("float", 0, "inf"), Value("float", 0, "nan")}

\* cards json.load can give: a string or another value that is no dict, or a dict
RawCards ==
    {NoDict(value) : value \in RawValues \ {Value("missing", 0, "")}}
    \cup {Dict(front, Value("missing", 0, ""), marked, weight) :
            front \in {Value("missing", 0, ""), Value("str", 0, "q1"), Value("int", 5 * WeightScale, "")},
            marked \in {Value("missing", 0, ""), Value("str", 0, "q1"), Value("bool", 0, "")},
            weight \in RawValues}
    \cup {Dict(Value("str", 0, "q1"), back, Value("bool", WeightScale, ""),
                Value("float", 5 * WeightScale, "")) :
            back \in RawValues}

\* more texts for that dialog: without "::", without a name, without a card, with
\* and without braces, with blank entries, with "::" twice in an entry
ParseTexts ==
    CardTexts \cup
    {<<>>, <<" ", " ">>, <<"{", "}">>, <<"A", ";", "q3">>,
     <<"::", "q3">>, <<"{", " ", "::", "q3", "}">>,
     <<"A", "::">>, <<"A", "::", "{", " ", "}">>, <<"A", "::", ";", " ", ";">>,
     <<"A", "::", "::", "b">>, <<"A", "::", " ", "::", "b", ";">>,
     <<" ", "A", " ", "::", "q2", ";", ";", "q3", "::", "b", "::", "c">>,
     <<"{", "A", "::", "q2", " ", "x", ";", "::", "b", ";", "q3", "::", ";", "}">>,
     <<"A", "::", "{", "q3", "::", " ", "b", " ", "}", " ">>,
     <<"A", "::", "{", "q3", ";", "q2">>,
     <<"A", "::", "A", "::", "q3">>}

\* texts typed into the field "Spalten" of the dialog "Neuer Space"
CountTexts ==
    {<<"x">>, <<"0">>, <<"1">>, <<" ", "2">>, <<"3">>, <<"4">>, <<"0", "5">>, <<"7">>, <<"9">>,
     <<"1", "2">>, <<"4", "1">>}

RowTexts == {<<" ">>, <<"r1">>, <<" ", "r9", " ">>}

InlineTexts == {<<>>, <<"r9">>}

SpaceTexts == {<<" ">>, <<"A">>, <<" ", "C">>}

ColsTexts == {<<"x">>, <<"1">>, <<"2">>, <<"3", " ">>}

PendingRows == {<<>>, <<"r1">>}

Palette == {"#c1"}

NavRows == {"r1", "r2"}

Fronts == {"q1", "q2", "q3"}

-----------------------------------------------------------------------------
(* Lists and card dicts as objects: what a copy shares with its source *)

\* the cells of a document, space by space, row by row, column by column
CellKeys(doc) ==
    LET RECURSIVE Concat(_)
        Concat(seqs) == IF seqs = <<>> THEN <<>> ELSE Head(seqs) \o Concat(Tail(seqs))
        of_row(t, r) == [k \in 1..Len(doc.tables[t].columns) |->
                            <<t, r, doc.tables[t].columns[k]>>]
        of_table(t) == Concat([j \in 1..Len(doc.tables[t].rows) |->
                                  of_row(t, doc.tables[t].rows[j])])
        all == Concat([i \in 1..Len(doc.table_order) |-> of_table(doc.table_order[i])])
    IN  SelectSeq(all, LAMBDA key : HasCell(doc.tables[key[1]], key[2], key[3]))

\* json.load: every list and every card dict of the file is an object of its own
json_load(doc) ==
    LET RECURSIVE Load(_, _)
        Load(o, keys) ==
            IF keys = <<>> THEN o
            ELSE LET key == Head(keys)
                     cell == doc.tables[key[1]].cards[key[2]][key[3]]
                     base == Cardinality(DOMAIN o.dicts)
                     list == Cardinality(DOMAIN o.lists) + 1
                 IN  Load([o EXCEPT
                              !.dicts = [i \in 1..(base + Len(cell)) |->
                                            IF i <= base THEN o.dicts[i] ELSE cell[i - base]],
                              !.lists = DictSet(o.lists, list,
                                                [k \in 1..Len(cell) |-> base + k]),
                              !.cards = DictSet(o.cards, key, list)],
                          Tail(keys))
    IN  Load([rows |-> [t \in DOMAIN doc.tables |-> doc.tables[t].rows],
              columns |-> [t \in DOMAIN doc.tables |-> doc.tables[t].columns],
              cards |-> EmptyDict, lists |-> EmptyDict, dicts |-> EmptyDict],
             CellKeys(doc))

\* the card dicts a cell shows, in order
CellValue(o, key) == [k \in 1..Len(o.lists[o.cards[key]]) |-> o.dicts[o.lists[o.cards[key]][k]]]

\* find_card on the list of a cell
CardAt(o, key, card_front) == find_card(CellValue(o, key), card_front)

\* a copy that hands out the list of the source itself
AliasCell(o, src, dst) ==
    IF src \in DOMAIN o.cards THEN [o EXCEPT !.cards = DictSet(o.cards, dst, o.cards[src])]
    ELSE [o EXCEPT !.lists = DictSet(o.lists, Cardinality(DOMAIN o.lists) + 1, <<>>),
                   !.cards = DictSet(o.cards, dst, Cardinality(DOMAIN o.lists) + 1)]

\* copy.deepcopy of the list of a cell (an empty list when the source has no such
\* cell): a new list of new card dicts with the values of the old ones
deepcopy_cell(o, src, dst) ==
    LET old == IF src \in DOMAIN o.cards THEN o.lists[o.cards[src]] ELSE <<>>
        base == Cardinality(DOMAIN o.dicts)
        list == Cardinality(DOMAIN o.lists) + 1
    IN  [o EXCEPT !.dicts = [i \in 1..(base + Len(old)) |->
                                IF i <= base THEN o.dicts[i] ELSE o.dicts[old[i - base]]],
                  !.lists = DictSet(o.lists, list, [k \in 1..Len(old) |-> base + k]),
                  !.cards = DictSet(o.cards, dst, list)]

\* submit_transfer with action "copy", on the objects
clone_row(o, source, dest, table_name, desired_name) ==
    IF \/ source = dest
       \/ ~Contains(o.rows[source], table_name)
       \/ Len(o.rows[dest]) >= MaxRows
       \/ Contains(o.rows[dest], desired_name)
       \/ o.columns[source] # o.columns[dest]
    THEN o
    ELSE LET RECURSIVE Clone(_, _)
             Clone(p, columns) ==
                 IF columns = <<>> THEN p
                 ELSE Clone(deepcopy_cell(p, <<source, table_name, Head(columns)>>,
                                          <<dest, desired_name, Head(columns)>>),
                            Tail(columns))
         IN  [Clone(o, o.columns[dest]) EXCEPT !.rows[dest] = Append(@, desired_name)]

\* duplicate_current_table, on the objects
clone_table(o, current_table, new_name) ==
    IF new_name = "" \/ new_name \in DOMAIN o.rows THEN o
    ELSE LET keys == SelectSeq(CellKeys([table_order |-> <<current_table>>,
                                         tables |-> [t \in {current_table} |->
                                            [rows |-> o.rows[t], columns |-> o.columns[t],
                                             cards |-> [r \in Range(o.rows[t]) |->
                                                         [c \in Range(o.columns[t]) |-> <<>>]]]]]),
                            LAMBDA key : key \in DOMAIN o.cards)
             RECURSIVE Clone(_, _)
             Clone(p, rest) ==
                 IF rest = <<>> THEN p
                 ELSE Clone(deepcopy_cell(p, Head(rest), <<new_name, Head(rest)[2], Head(rest)[3]>>),
                            Tail(rest))
         IN  [Clone(o, keys) EXCEPT !.rows = DictSet(@, new_name, o.rows[current_table]),
                                    !.columns = DictSet(@, new_name, o.columns[current_table])]

\* adjust_card_weight: card_dict["weight"] = round(new_weight, 2)
set_weight_in_place(o, key, card_front, delta) ==
    LET id == o.lists[o.cards[key]][CardAt(o, key, card_front)]
        new_weight == Max(card_weight_min * WeightScale,
                          Min(card_weight_max * WeightScale,
                              extract_card_weight(o.dicts[id]) + delta))
    IN  [o EXCEPT !.dicts[id].weight = Round2(new_weight)]

\* on_card_click in mark mode: card_dict["marked"] = not card_dict["marked"]
toggle_marked_in_place(o, key, card_front) ==
    LET id == o.lists[o.cards[key]][CardAt(o, key, card_front)]
    IN  [o EXCEPT !.dicts[id].marked = ~@]

\* persist_changes: card_dict["back"] = new_text
set_back_in_place(o, key, card_front, new_text) ==
    LET id == o.lists[o.cards[key]][CardAt(o, key, card_front)]
    IN  [o EXCEPT !.dicts[id].back = new_text]

\* on_card_click in delete mode: cards[row_name][col_name].remove(card_dict)
remove_from_list(o, key, card_front) ==
    [o EXCEPT !.lists[o.cards[key]] = RemoveAt(@, CardAt(o, key, card_front))]

\* move_card_between_columns, on_column_click: remove(old_card), append(old_card)
move_between_lists(o, key, card_front, target) ==
    LET id == o.lists[o.cards[key]][CardAt(o, key, card_front)]
        removed == remove_from_list(o, key, card_front)
    IN  [removed EXCEPT !.lists[o.cards[target]] = Append(@, id)]

-----------------------------------------------------------------------------
(* Observers *)

\* what a user of the program can see of a state: the document, the selection,
\* and the documents the history and the future hold
View(s) ==
    [doc |-> Live(s), selected_row |-> s.selected_row_name,
     history |-> ResolveAll(s.heap, s.history), future |-> ResolveAll(s.heap, s.future)]

IsRecord(event) == event[1] = "record"

Recorded(events) == [i \in 1..Len(SelectSeq(events, IsRecord)) |->
                        SelectSeq(events, IsRecord)[i][2]]

InitRun(doc) ==
    [snaps |-> <<>>, pure |-> TRUE,
     base |-> [doc |-> doc, selected_row |-> None], muts |-> 0, undos |-> 0, ok |-> TRUE,
     undone |-> <<>>]

\* the observer `run` after handler op took the state s to t
NextRun(op, s, t) ==
    LET r1 == [run EXCEPT !.snaps = @ \o Recorded(t.log),
                          !.pure = @ /\ op \notin {"undo", "redo"},
                          !.undone = IF op = "undo" /\ s.history # <<>>
                                     THEN <<Live(s)>> ELSE <<>>]
    IN  IF op = "undo" THEN [r1 EXCEPT !.undos = @ + 1]
        ELSE IF op = "redo" THEN [r1 EXCEPT !.ok = FALSE]
        ELSE IF t.result # "ok" THEN r1
        ELSE IF run.ok /\ run.undos = 0 /\ run.muts > 0 THEN [r1 EXCEPT !.muts = @ + 1]
        ELSE [r1 EXCEPT !.base = [doc |-> Live(s), selected_row |-> s.selected_row_name],
                        !.muts = 1, !.undos = 0, !.ok = TRUE]

\* the widget that holds the mouse button after handler op: a handler that rebuilds
\* the board (update_table) destroys the card widgets
NextButton(op, arg, t) ==
    IF op = "on_card_press" THEN arg
    ELSE IF op = "on_card_release" THEN <<>>
    ELSE IF button = <<>> \/ op = "on_card_motion" THEN button
    ELSE IF op \in {"undo", "redo"} /\ t.log = <<>> THEN button
    ELSE <<"gone">>

\* handler op, given arg, took the state St to t
Commit(op, arg, t) ==
    LET c == Collect(t)
    IN  /\ heap' = c.heap
        /\ data' = c.data
        /\ selected_row_name' = c.selected_row_name
        /\ history' = c.history
        /\ future' = c.future
        /\ save_file' = c.save_file
        /\ delete_mode' = c.delete_mode
        /\ mark_mode' = c.mark_mode
        /\ moving_card' = c.moving_card
        /\ drag_data' = c.drag_data
        /\ disk' = c.disk
        /\ button' = NextButton(op, arg, c)
        /\ forced_dialogs' = c.forced_dialogs
        /\ grab' = c.grab
        /\ log' = c.log
        /\ last' = [op |-> op, arg |-> arg, result |-> c.result,
                    history_len |-> Len(history), future_len |-> Len(future),
                    same |-> (View(c) = View(St)),
                    prev_result |-> last.result,
                    undone |-> run.undone,
                    popped |-> IF op = "undo" /\ history # <<>>
                               THEN <<Resolve(heap, history[Len(history)])>> ELSE <<>>]
        /\ run' = NextRun(op, St, c)
        /\ steps' = steps + 1
        /\ objects' = objects

\* the program once it has started on the document loaded_doc: load_data,
\* _reset_history, the "Neuer Space" dialog if there is no space (once from
\* __init__ and once from run_app), the first space as default
Started(loaded_doc) ==
    LET doc == IF loaded_doc.current_table = None /\ loaded_doc.table_order # <<>>
               THEN [loaded_doc EXCEPT !.current_table = loaded_doc.table_order[1]]
               ELSE loaded_doc
    IN  /\ heap = [i \in {1} |-> doc]
        /\ data = 1
        /\ selected_row_name = None
        /\ history = <<>>
        /\ future = <<>>
        /\ save_file = loaded_doc
        /\ delete_mode = FALSE
        /\ mark_mode = FALSE
        /\ moving_card = <<>>
        /\ drag_data = <<>>
        /\ button = <<>>
        /\ disk = "ok"
        /\ forced_dialogs = (IF loaded_doc.table_order = <<>> THEN 2 ELSE 0)
        /\ grab = (loaded_doc.table_order = <<>>)
        /\ log = <<>>
        /\ last = [op |-> "start", arg |-> <<>>, result |-> "none",
                   history_len |-> 0, future_len |-> 0, same |-> TRUE,
                   prev_result |-> "none", undone |-> <<>>, popped |-> <<>>]
        /\ run = InitRun(doc)
        /\ steps = 0
        /\ objects = json_load(doc)

Init == \E loaded_doc \in LoadedDocs : Started(loaded_doc)

InitDeep == Started(DocSmall)

InitStart == Started(EmptyData)

InitRows == Started(DocMain("B"))

-----------------------------------------------------------------------------
(* The handlers as actions.  The main window takes input only while no      *)
(* dialog holds the grab; a dialog opened with register_dialog is modal, so *)
(* what it does from opening to closing is one step.                        *)

FreeIn(bound) == ~grab /\ steps < bound

Free == FreeIn(MaxSteps)

\* the cards on the board: those of the selected row of the current space
OnBoard(row_name, col_name, card_front) ==
    /\ Rendered(St, row_name, col_name)
    /\ HasCard(get_current_table_data(St).cards[row_name][col_name], card_front)

AddRowIn(bound, texts) ==
    /\ FreeIn(bound)
    /\ \E row_text \in texts, color \in Palette :
          Commit("add_row", row_text, add_row_submit(St, row_text, color))

InlineRowIn(bound) ==
    /\ FreeIn(bound)
    /\ \E row_text \in InlineTexts, color \in Palette :
          Commit("submit_inline_row", row_text, submit_inline_row(St, row_text, color))

DeleteRowIn(bound) ==
    /\ FreeIn(bound)
    /\ \E row_name \in NavRows \cup {""} :
          Commit("delete_row", <<>>, delete_row(St, row_name))

PickRowColor ==
    /\ Free
    /\ \E new_hex \in Palette \cup {""} :
          /\ selected_row_name # None
          /\ Commit("pick_row_color", <<>>, pick_row_color(St, selected_row_name, new_hex))

AddCardKey(bound) ==
    /\ FreeIn(bound)
    /\ \E row_index \in {1, 9}, card_name \in {"", "q3"} :
          Commit("add_card_to_row", <<row_index, card_name>>,
                 add_card_to_row(St, row_index, card_name))

AddCardButton(bound) ==
    /\ FreeIn(bound)
    /\ has_current_table(St)
    /\ \E row_name \in Range(get_current_table_data(St).rows) \cap NavRows :
          Commit("add_card_via_button", <<row_name, "q3">>,
                 select_line_and_close_by_name(St, row_name, "q3"))

ImportCards(bound, texts) ==
    /\ FreeIn(bound)
    /\ \E raw_text \in texts, prompt_row \in {"r1", None} :
          Commit("import_cards_via_text", <<raw_text, prompt_row>>,
                 import_cards_via_text(St, raw_text, prompt_row))

AdjustWeightIn(bound, signs) ==
    /\ FreeIn(bound)
    /\ \E row_name \in NavRows, col_name \in Range(generate_columns(2)),
          card_front \in Fronts, sign \in signs :
          /\ OnBoard(row_name, col_name, card_front)
          /\ Commit("adjust_card_weight",
                    <<row_name, col_name, card_front, sign * card_weight_step * WeightScale>>,
                    adjust_card_weight(St, row_name, col_name, card_front,
                                       sign * card_weight_step * WeightScale))

\* a press and a release on a card, the pointer not moved in between
CardClick(bound) ==
    /\ FreeIn(bound)
    /\ \E row_name \in NavRows, col_name \in Range(generate_columns(2)),
          card_front \in Fronts :
          /\ OnBoard(row_name, col_name, card_front)
          /\ Commit("on_card_click", <<>>,
                    on_card_release(on_card_press(St, row_name, col_name, card_front),
                                    row_name, col_name, card_front, <<>>))

\* the columns of the board, and the place outside every column
DropTargets ==
    {<<>>} \cup {target \in NavRows \X Range(generate_columns(2)) :
                    Rendered(St, target[1], target[2])}

\* a press on a card, the pointer dragged away, the button released
DragDrop(bound) ==
    /\ FreeIn(bound)
    /\ \E row_name \in NavRows, col_name \in Range(generate_columns(2)),
          card_front \in Fronts, target \in DropTargets :
          /\ OnBoard(row_name, col_name, card_front)
          /\ Commit("drag_drop", <<row_name, col_name, card_front>> \o target,
                    on_card_release(
                        on_card_motion(on_card_press(St, row_name, col_name, card_front), TRUE),
                        row_name, col_name, card_front, target))

ColumnClick(bound) ==
    /\ FreeIn(bound)
    /\ \E row_name \in NavRows, col_name \in Range(generate_columns(2)) :
          /\ Rendered(St, row_name, col_name)
          /\ Commit("on_column_click", moving_card \o <<row_name, col_name>>,
                    on_column_click(St, row_name, col_name))

EditBack ==
    /\ Free
    /\ \E row_name \in NavRows, col_name \in Range(generate_columns(2)),
          card_front \in Fronts, new_text \in {"", "b"} :
          /\ OnBoard(row_name, col_name, card_front)
          /\ Commit("persist_changes", <<>>,
                    persist_changes(St, row_name, col_name, card_front, new_text))

\* the modes that are on when a handler is called
ModesOn ==
    (IF delete_mode THEN <<"delete_mode">> ELSE <<>>) \o
    (IF mark_mode THEN <<"mark_mode">> ELSE <<>>)

ToggleDelete(bound) ==
    FreeIn(bound) /\ Commit("toggle_delete_mode", ModesOn, toggle_delete_mode(St))

ToggleMark(bound) ==
    FreeIn(bound) /\ Commit("toggle_mark_mode", ModesOn, toggle_mark_mode(St))

Cancel(bound) == FreeIn(bound) /\ Commit("cancel_operations", <<>>, cancel_operations(St))

UndoIn(bound) == FreeIn(bound) /\ Commit("undo", <<>>, undo_action(St))

RedoIn(bound) == FreeIn(bound) /\ Commit("redo", <<>>, redo_action(St))

NewTable ==
    /\ Free
    /\ \E name_text \in SpaceTexts, cols_text \in ColsTexts, pending_rows \in PendingRows,
          color \in Palette :
          Commit("new_table", <<>>,
                 new_table_submit(St, name_text, cols_text, pending_rows, color, FALSE))

\* the same submit, the texts of its fields kept with the step
SubmitNewTable(bound, counts) ==
    /\ FreeIn(bound)
    /\ \E name_text \in SpaceTexts, cols_text \in counts, pending_rows \in PendingRows,
          color \in Palette :
          Commit("new_table", <<name_text, cols_text, pending_rows>>,
                 new_table_submit(St, name_text, cols_text, pending_rows, color, FALSE))

\* "Erstellen" in a dialog opened by new_table(skip_history=True)
ForcedSubmitIn(bound, names, counts, rows) ==
    /\ steps < bound
    /\ forced_dialogs > 0
    /\ \E name_text \in names, cols_text \in counts, pending_rows \in rows,
          color \in Palette :
          Commit("new_table_forced", <<>>,
                 new_table_submit(St, name_text, cols_text, pending_rows, color, TRUE))

\* such a dialog is closed without creating a space
ForcedCloseIn(bound) ==
    /\ steps < bound
    /\ forced_dialogs > 0
    /\ Commit("close_dialog", <<>>, close_dialog(St, TRUE))

DeleteTable ==
    /\ Free
    /\ \E table_name \in DOMAIN Live(St).tables \cup {""} :
          Commit("delete_table_via_menu", <<>>, delete_table_via_menu(St, table_name))

Duplicate ==
    /\ Free
    /\ \E new_name \in {"", "A", "C"} :
          Commit("duplicate_current_table", <<>>, duplicate_current_table(St, new_name))

ImportTable(bound, payloads) ==
    /\ FreeIn(bound)
    /\ \E table_payload \in payloads, table_name \in {"", "A", "C"}, overwrite \in BOOLEAN :
          Commit("import_table_from_file", <<table_payload, table_name, overwrite>>,
                 import_table_from_file(St, table_payload, table_name, overwrite))

\* the dialog opens only with two spaces, one of them with rows
Transfer(bound, names) ==
    /\ FreeIn(bound)
    /\ Cardinality(DOMAIN Live(St).tables) >= 2
    /\ \E n \in DOMAIN Live(St).tables : Live(St).tables[n].rows # <<>>
    /\ \E action \in {"move", "copy"}, source \in DOMAIN Live(St).tables,
          dest \in DOMAIN Live(St).tables, table_name \in NavRows, name_text \in names :
          /\ Contains(Live(St).tables[source].rows, table_name)
          /\ Commit("submit_transfer", <<action, source, dest, table_name, name_text>>,
                    submit_transfer(St, action, source, dest, table_name, name_text, "#c1"))

TreeSelectIn(bound, rows) ==
    /\ FreeIn(bound)
    /\ \E table_name \in DOMAIN Live(St).tables, row_name \in rows :
          /\ row_name # None => Contains(Live(St).tables[table_name].rows, row_name)
          /\ Commit("on_tree_select", <<table_name, row_name>>,
                    on_tree_select(St, table_name, row_name))

\* files and stored versions that can be loaded
StoredDocs == {DocMain("B"), DocSmall}

Reload(bound) ==
    FreeIn(bound) /\ Commit("load_data_or_create_new_table", <<>>,
                            load_data_or_create_new_table(St))

LoadVersion(bound) ==
    /\ FreeIn(bound)
    /\ \E entry \in StoredDocs :
          Commit("load_history_state", <<entry>>, load_history_state(St, entry))

ChangeSaveFile(bound) ==
    /\ FreeIn(bound)
    /\ \E user_choice \in {"yes", "no", "cancel"}, file \in StoredDocs :
          Commit("change_save_location", <<user_choice>>,
                 change_save_location(St, user_choice, file))

\* a step on the objects: the document and its history are not followed
Share(op, arg, o) ==
    /\ objects' = o
    /\ last' = [last EXCEPT !.op = op, !.arg = arg,
                            !.result = IF o = objects THEN "none" ELSE "ok"]
    /\ steps' = steps + 1
    /\ UNCHANGED <<heap, data, selected_row_name, history, future, save_file, delete_mode,
                   mark_mode, moving_card, drag_data, button, disk, forced_dialogs, grab,
                   log, run>>

\* the cells that hold a card with this front
CellsWith(card_front) == {key \in DOMAIN objects.cards : CardAt(objects, key, card_front) > 0}

CopyRow(bound) ==
    /\ steps < bound
    /\ \E source \in DOMAIN objects.rows, dest \in DOMAIN objects.rows,
          table_name \in NavRows, desired_name \in {"r1", "r9"} :
           Share("submit_transfer", <<source, table_name, dest, desired_name>>,
                 clone_row(objects, source, dest, table_name, desired_name))

DuplicateSpace(bound) ==
    /\ steps < bound
    /\ \E current_table \in DOMAIN objects.rows, new_name \in {"A", "A_kopie"} :
           Share("duplicate_current_table", <<current_table, new_name>>,
                 clone_table(objects, current_table, new_name))

WeightInPlace(bound) ==
    /\ steps < bound
    /\ \E card_front \in Fronts : \E key \in CellsWith(card_front) :
           Share("adjust_card_weight", <<key>>,
                 set_weight_in_place(objects, key, card_front, card_weight_step * WeightScale))

MarkInPlace(bound) ==
    /\ steps < bound
    /\ \E card_front \in Fronts : \E key \in CellsWith(card_front) :
           Share("on_card_click", <<key>>,
                 toggle_marked_in_place(objects, key, card_front))

BackInPlace(bound) ==
    /\ steps < bound
    /\ \E card_front \in Fronts : \E key \in CellsWith(card_front) :
           Share("persist_changes", <<key>>,
                 set_back_in_place(objects, key, card_front, "b"))

RemoveCard(bound) ==
    /\ steps < bound
    /\ \E card_front \in Fronts : \E key \in CellsWith(card_front) :
           Share("delete", <<key>>, remove_from_list(objects, key, card_front))

MoveCard(bound) ==
    /\ steps < bound
    /\ \E card_front \in Fronts : \E key \in CellsWith(card_front) :
           \E target \in {k \in DOMAIN objects.cards : k[1] = key[1] /\ k[2] = key[2]} :
               Share("move", <<key, target>>,
                     move_between_lists(objects, key, card_front, target))

LoadTable ==
    /\ Free
    /\ \E table_name \in DOMAIN Live(St).tables :
          Commit("load_table_via_menu", <<>>, load_table_via_menu(St, table_name))

Next ==
    \/ AddRowIn(MaxSteps, RowTexts) \/ InlineRowIn(MaxSteps) \/ DeleteRowIn(MaxSteps)
    \/ PickRowColor \/ AddCardKey(MaxSteps) \/ AddCardButton(MaxSteps)
    \/ AdjustWeightIn(MaxSteps, {-1, 1}) \/ CardClick(MaxSteps) \/ DragDrop(MaxSteps)
    \/ ColumnClick(MaxSteps) \/ EditBack
    \/ ToggleDelete(MaxSteps) \/ ToggleMark(MaxSteps) \/ Cancel(MaxSteps)
    \/ UndoIn(MaxSteps) \/ RedoIn(MaxSteps)
    \/ NewTable \/ ForcedSubmitIn(MaxSteps, SpaceTexts, ColsTexts, PendingRows)
    \/ ForcedCloseIn(MaxSteps) \/ DeleteTable \/ Duplicate
    \/ ImportTable(MaxSteps, Payloads) \/ Transfer(MaxSteps, {<<"r9">>}) \/ TreeSelectIn(MaxSteps, NavRows \cup {None})
    \/ LoadTable \/ ImportCards(MaxSteps, {<<"A", "::", "q3">>})

Spec == Init /\ [][Next]_vars

-----------------------------------------------------------------------------
(* Long runs of the history: one small document, few handlers, many steps  *)

NextDeep ==
    \/ TreeSelectIn(MaxDeepSteps, {"r1"})
    \/ AdjustWeightIn(MaxDeepSteps, {1})
    \/ AddRowIn(MaxDeepSteps, {<<"r9">>})
    \/ UndoIn(MaxDeepSteps)
    \/ RedoIn(MaxDeepSteps)

SpecDeep == InitDeep /\ [][NextDeep]_vars

-----------------------------------------------------------------------------
(* Rows of a space that is one row short of the maximum                    *)

NextRows ==
    \/ AddRowIn(MaxRowSteps, RowTexts \cup {<<"r10">>})
    \/ InlineRowIn(MaxRowSteps)
    \/ DeleteRowIn(MaxRowSteps)
    \/ TreeSelectIn(MaxRowSteps, {"r1"})
    \/ UndoIn(MaxRowSteps)
    \/ RedoIn(MaxRowSteps)

SpecRows == InitRows /\ [][NextRows]_vars

-----------------------------------------------------------------------------
(* The program started without a save file: the "Neuer Space" dialogs      *)

NextStart ==
    \/ ForcedSubmitIn(MaxStartSteps, {<<"A">>, <<" ", "C">>}, {<<"2">>}, {<<"r1">>})
    \/ ForcedCloseIn(MaxStartSteps)
    \/ AddRowIn(MaxStartSteps, {<<"r9">>})
    \/ UndoIn(MaxStartSteps)
    \/ RedoIn(MaxStartSteps)

SpecStart == InitStart /\ [][NextStart]_vars

-----------------------------------------------------------------------------
(* Weights: a file with weights outside the range, an import without weights *)

InitWeights == Started(DocLegacy)

NextWeights ==
    \/ TreeSelectIn(MaxWeightSteps, {"r1"})
    \/ AdjustWeightIn(MaxWeightSteps, {-30, -1, 1, 30})
    \/ ImportTable(MaxWeightSteps, {PayloadLegacy})

SpecWeights == InitWeights /\ [][NextWeights]_vars

-----------------------------------------------------------------------------
(* Rows moved and copied between three spaces                               *)

InitTransfer == Started(DocTransfer)

NextTransfer ==
    \/ Transfer(MaxTransferSteps, {<<>>, <<" ", "r10">>})
    \/ TreeSelectIn(MaxTransferSteps, {"r1"})
    \/ UndoIn(MaxTransferSteps)

SpecTransfer == InitTransfer /\ [][NextTransfer]_vars

-----------------------------------------------------------------------------
(* Statistics: the documents the row and space statistics are computed of   *)

InitStats == Started(DocStats)

NextStats ==
    \/ TreeSelectIn(MaxStatsSteps, {"r1", "r2"})
    \/ AdjustWeightIn(MaxStatsSteps, {-1, 1})
    \/ DragDrop(MaxStatsSteps)
    \/ AddCardKey(MaxStatsSteps)
    \/ ImportTable(MaxStatsSteps, {PayloadMixed})

SpecStats == InitStats /\ [][NextStats]_vars

-----------------------------------------------------------------------------
(* Persistence: the file can stop and start being writable between inputs   *)

\* the directory loses or regains its write permission, or the disk its space
SetDisk(bound) ==
    /\ FreeIn(bound)
    /\ \E state \in {"ok", "denied", "full"} :
          /\ state # disk
          /\ Commit("disk", <<state>>, [St EXCEPT !.disk = state])

InitDisk == Started(DocSmall)

NextDisk ==
    \/ TreeSelectIn(MaxDiskSteps, {"r1"})
    \/ AddCardKey(MaxDiskSteps)
    \/ AddCardButton(MaxDiskSteps)
    \/ ImportCards(MaxDiskSteps, CardTexts)
    \/ ImportTable(MaxDiskSteps, {PayloadNoCards, PayloadPartial})
    \/ AdjustWeightIn(MaxDiskSteps, {1})
    \/ DragDrop(MaxDiskSteps)
    \/ UndoIn(MaxDiskSteps)
    \/ RedoIn(MaxDiskSteps)
    \/ SetDisk(MaxDiskSteps)

SpecDisk == InitDisk /\ [][NextDisk]_vars

\* the handler the inputs of NextDisk are bound to, applied in the state s
Handler(s, op, arg) ==
    CASE op = "on_tree_select" -> on_tree_select(s, arg[1], arg[2])
      [] op = "add_card_to_row" -> add_card_to_row(s, arg[1], arg[2])
      [] op = "add_card_via_button" -> select_line_and_close_by_name(s, arg[1], arg[2])
      [] op = "import_cards_via_text" -> import_cards_via_text(s, arg[1], arg[2])
      [] op = "import_table_from_file" -> import_table_from_file(s, arg[1], arg[2], arg[3])
      [] op = "adjust_card_weight" -> adjust_card_weight(s, arg[1], arg[2], arg[3], arg[4])
      [] op = "drag_drop" ->
            on_card_release(on_card_motion(on_card_press(s, arg[1], arg[2], arg[3]), TRUE),
                            arg[1], arg[2], arg[3], SubSeq(arg, 4, Len(arg)))
      [] op = "undo" -> undo_action(s)
      [] op = "redo" -> redo_action(s)
      [] OTHER -> s

-----------------------------------------------------------------------------
(* Gestures: the mouse button goes down on a card, the pointer moves, the   *)
(* button goes up, each a step of its own.  While the button is down the    *)
(* mouse reaches no other widget.                                           *)

CardPress(bound) ==
    /\ FreeIn(bound)
    /\ button = <<>>
    /\ \E row_name \in NavRows, col_name \in Range(generate_columns(2)),
          card_front \in Fronts :
          /\ OnBoard(row_name, col_name, card_front)
          /\ Commit("on_card_press", <<row_name, col_name, card_front>>,
                    on_card_press(St, row_name, col_name, card_front))

CardMotion(bound) ==
    /\ FreeIn(bound)
    /\ Len(button) = 3
    /\ \E far \in BOOLEAN : Commit("on_card_motion", <<far>>, on_card_motion(St, far))

CardRelease(bound) ==
    /\ FreeIn(bound)
    /\ Len(button) = 3
    /\ \E target \in DropTargets :
          Commit("on_card_release", button \o target,
                 on_card_release(St, button[1], button[2], button[3], target))

InitGesture == Started(DocMain("A"))

NextGesture ==
    \/ button = <<>> /\ TreeSelectIn(MaxGestureSteps, {"r1"})
    \/ CardPress(MaxGestureSteps)
    \/ CardMotion(MaxGestureSteps)
    \/ CardRelease(MaxGestureSteps)
    \/ button = <<>> /\ ColumnClick(MaxGestureSteps)
    \/ button = <<>> /\ UndoIn(MaxGestureSteps)

SpecGesture == InitGesture /\ [][NextGesture]_vars

-----------------------------------------------------------------------------
(* Spaces created with 0 to 41 columns *)

InitCreate == Started(DocSmall)

NextCreate ==
    \/ SubmitNewTable(MaxCreateSteps, CountTexts)
    \/ UndoIn(MaxCreateSteps)
    \/ RedoIn(MaxCreateSteps)

SpecCreate == InitCreate /\ [][NextCreate]_vars

-----------------------------------------------------------------------------
(* Cards of a file brought into normal form.  The result is kept in log.    *)

ConvertCards(bound) ==
    /\ FreeIn(bound)
    /\ \E card \in RawCards, again \in BOOLEAN :
          LET cards == [row \in {"r1"} |-> [col \in {"5.0"} |-> <<card>>]]
              once == normalize_cards_tree(cards)
          IN  Commit("normalize_cards_tree", <<card, again>>,
                     Note(St, <<"normalized",
                                IF again THEN normalize_cards_tree(once) ELSE once>>))

InitLoad == Started(DocSmall)

NextLoad == ConvertCards(MaxLoadSteps)

SpecLoad == InitLoad /\ [][NextLoad]_vars

-----------------------------------------------------------------------------
(* Texts pasted into the dialog "Karten importieren" *)

InitText == Started(DocSmall)

NextText ==
    \/ ImportCards(MaxTextSteps, ParseTexts)
    \/ TreeSelectIn(MaxTextSteps, {"r1", None})
    \/ UndoIn(MaxTextSteps)

SpecText == InitText /\ [][NextText]_vars

-----------------------------------------------------------------------------
(* Modes of the board: a card picked to move, delete mode, mark mode *)

InitModes == Started(DocMain("A"))

NextModes ==
    \/ TreeSelectIn(MaxModeSteps, NavRows)
    \/ CardClick(MaxModeSteps)
    \/ ColumnClick(MaxModeSteps)
    \/ DeleteRowIn(MaxModeSteps)
    \/ ToggleDelete(MaxModeSteps)
    \/ ToggleMark(MaxModeSteps)
    \/ Cancel(MaxModeSteps)
    \/ UndoIn(MaxModeSteps)
    \/ RedoIn(MaxModeSteps)

SpecModes == InitModes /\ [][NextModes]_vars

-----------------------------------------------------------------------------
(* The document replaced by a file or a stored version *)

NextReload ==
    \/ TreeSelectIn(MaxReloadSteps, {"r1"})
    \/ AdjustWeightIn(MaxReloadSteps, {1})
    \/ Reload(MaxReloadSteps)
    \/ LoadVersion(MaxReloadSteps)
    \/ ChangeSaveFile(MaxReloadSteps)
    \/ UndoIn(MaxReloadSteps)
    \/ RedoIn(MaxReloadSteps)

SpecReload == InitDeep /\ [][NextReload]_vars

-----------------------------------------------------------------------------
(* Rows and spaces copied, then cards of the source or of the copy changed *)

InitShare == Started(DocSmall)

NextShare ==
    \/ CopyRow(MaxShareSteps)
    \/ DuplicateSpace(MaxShareSteps)
    \/ WeightInPlace(MaxShareSteps)
    \/ MarkInPlace(MaxShareSteps)
    \/ BackInPlace(MaxShareSteps)
    \/ RemoveCard(MaxShareSteps)
    \/ MoveCard(MaxShareSteps)

SpecShare == InitShare /\ [][NextShare]_vars

-----------------------------------------------------------------------------
(* Properties *)

LastN(seq, n) == SubSeq(seq, Len(seq) - n + 1, Len(seq))

Tables == {Live(St).tables[n] : n \in DOMAIN Live(St).tables}

Held == EntryIds(history) \cup EntryIds(future)

\* the selection _apply_history_state leaves for a captured selected row
Reselected(selected_row) ==
    IF has_current_table(St) /\ Contains(get_current_table_data(St).rows, selected_row)
    THEN selected_row ELSE None

\* C1: an undo leaves the document and the selected row of the entry it
\* popped; after k <= 7 successful mutations from a state S0 (run.base) with
\* no undo or redo in between, k undos leave a document deep-equal to S0;
\* each of the first min(k, 7) undos takes effect, and after more than 7
\* mutations the history is empty once 7 undos are done.
C1_UndoRestores ==
    /\ (last.op = "undo" /\ last.popped # <<>>)
          => /\ DeepEqual(Live(St), last.popped[1].data)
             /\ selected_row_name = Reselected(last.popped[1].selected_row)
    /\ (run.ok /\ last.op = "undo" /\ run.muts >= 1 /\ run.muts <= max_history
           /\ run.undos = run.muts)
          => DeepEqual(Live(St), run.base.doc)
    /\ (run.ok /\ last.op = "undo" /\ run.undos >= 1 /\ run.undos <= Min(run.muts, max_history))
          => last.history_len > 0
    /\ (run.ok /\ run.muts > max_history /\ run.undos >= max_history) => history = <<>>

C3_MutationClearsFuture ==
    /\ last.result = "ok" => future = <<>>
    /\ (last.op = "redo" /\ last.prev_result = "ok") => last.same

\* C4: a redo immediately after an undo that found a non-empty history leaves
\* a document deep-equal to the one before that undo.
C4_UndoRedoRestores ==
    (last.op = "redo" /\ last.undone # <<>>) => DeepEqual(Live(St), last.undone[1])

C4_Witness ==
    /\ last.op = "redo" /\ last.undone # <<>>
    /\ Len(history) >= 2 /\ future # <<>>

\* C5: after n record calls and no undo or redo, the history holds the
\* snapshots of the last min(n, 7) calls in the order they were taken (after
\* 8 calls: 7 entries, the first snapshot gone).
C5_HistoryIsLastSeven ==
    run.pure =>
        ResolveAll(heap, history) = LastN(run.snaps, Min(Len(run.snaps), max_history))

C5_Witness ==
    /\ run.pure /\ Len(run.snaps) = max_history + 1 /\ Len(history) = max_history
    /\ Resolve(heap, history[1]) = run.snaps[2]
    /\ run.snaps[1] # run.snaps[2]

\* C6: no step changes the document of an entry that history or future holds
\* before and after the step.
C6_SnapshotsNeverChange ==
    [][\A i \in Held \cap Held' : heap'[i] = heap[i]]_vars

C6_Witness ==
    /\ last.result = "ok" /\ Len(history) >= 2
    /\ \A i \in 1..Len(history) : heap[history[i].data] # Live(St)
    /\ heap[history[1].data] # heap[history[2].data]

\* C7: an undo that finds the history empty, and a redo that finds the future
\* empty, leave document, selected row, history and future unchanged.
C7_EmptyUndoRedoNoOp ==
    /\ (last.op = "undo" /\ last.history_len = 0) => last.same
    /\ (last.op = "redo" /\ last.future_len = 0) => last.same

C7_Witness ==
    /\ last.op = "undo" /\ last.history_len = 0
    /\ future # <<>>

\* C8: every space of the document holds at most 9 rows.
C8_AtMostNineRows == \A table \in Tables : Len(table.rows) <= MaxRows

\* C9: a call of _create_row_entry whose trimmed name is empty, whose space
\* already has 9 rows, or whose name is a row of the space ends with the
\* reason, and leaves document, selected row, history and future unchanged.
C9_CreateRowFails ==
    [][\A i \in 1..Len(log') :
         (/\ log'[i][1] = "create_row_entry"
          /\ has_current_table(St)
          /\ \/ strip(log'[i][2]) = ""
             \/ Len(get_current_table_data(St).rows) >= MaxRows
             \/ Contains(get_current_table_data(St).rows, strip(log'[i][2])))
         => /\ last'.result \in {"Name darf nicht leer sein",
                                  "Maximal 9 Tabellen sind erlaubt!",
                                  "Tabelle existiert bereits"}
            /\ View(St)' = View(St)
            /\ save_file' = save_file
      ]_vars

C9_Witness ==
    /\ last.op = "add_row" /\ last.result = "Maximal 9 Tabellen sind erlaubt!"
    /\ last.same /\ history # <<>>
    /\ has_current_table(St) /\ Len(get_current_table_data(St).rows) = MaxRows

\* C10: in every space each row has its cards, a card list for every column,
\* and its colour, and cards and colours exist for the rows only.
C10_RowsCardsColorsAgree ==
    \A table \in Tables :
        /\ DOMAIN table.cards = Range(table.rows)
        /\ DOMAIN table.row_colors = Range(table.rows)
        /\ \A r \in DOMAIN table.cards : Range(table.columns) \subseteq DOMAIN table.cards[r]

\* the step is a completed move gesture: a click on a column while a card is
\* remembered, or a card dragged onto a column (outside delete and mark mode)
IsMove ==
    /\ Len(last'.arg) = 5
    /\ \/ last'.op = "on_column_click"
       \/ last'.op = "drag_drop" /\ ~delete_mode /\ ~mark_mode
    /\ has_current_table(St)
    /\ HasCell(get_current_table_data(St), last'.arg[1], last'.arg[2])
    /\ HasCell(get_current_table_data(St), last'.arg[4], last'.arg[5])

\* C11: a completed move takes the first card with the given front out of the
\* source cell and appends it to the target cell, changing nothing else of the
\* document; with source cell = target cell, or no such card in the source
\* cell, the document and the history stay as they were.
C11_MoveCard ==
    [][IsMove =>
        LET a == last'.arg
            cards == get_current_table_data(St).cards
            i == find_card(cards[a[1]][a[2]], a[3])
        IN  IF (a[1] = a[4] /\ a[2] = a[5]) \/ i = 0
            THEN /\ Live(St)' = Live(St)
                 /\ ResolveAll(heap', history') = ResolveAll(heap, history)
            ELSE Live(St)' =
                    [Live(St) EXCEPT !.tables[Live(St).current_table].cards =
                        [cards EXCEPT ![a[1]][a[2]] = RemoveAt(@, i),
                                      ![a[4]][a[5]] = Append(@, cards[a[1]][a[2]][i])]]]_vars

\* x kept within [lo, hi]
Clamp(x, lo, hi) == IF x < lo THEN lo ELSE IF x > hi THEN hi ELSE x

\* C12: an adjustment leaves the card with the weight clamp(current + delta,
\* 10, 200) rounded to 2 decimals: a multiple of 0.01 no further than 0.005
\* from the clamped value, and within [10, 200] whatever the weight before.
C12_WeightClamped ==
    [][(last'.op = "adjust_card_weight" /\ last'.result = "ok") =>
        LET a == last'.arg
            before == get_current_table_data(St).cards[a[1]][a[2]]
            after == Live(St)'.tables[Live(St).current_table].cards[a[1]][a[2]]
            i == find_card(before, a[3])
            current == IF "weight" \in DOMAIN before[i] THEN before[i].weight
                       ELSE DEFAULT_CARD_WEIGHT * WeightScale
            exact == Clamp(current + a[4], card_weight_min * WeightScale,
                           card_weight_max * WeightScale)
        IN  /\ after[i].weight % (WeightScale \div 100) = 0
            /\ 2 * (after[i].weight - exact) <= WeightScale \div 100
            /\ 2 * (exact - after[i].weight) <= WeightScale \div 100
            /\ after[i].weight >= card_weight_min * WeightScale
            /\ after[i].weight <= card_weight_max * WeightScale
            /\ \A j \in 1..Len(before) : j # i => after[j] = before[j]]_vars

\* the weight 5.004 read from the file has been lowered and is now 10
C12_Witness ==
    /\ last.op = "adjust_card_weight" /\ last.result = "ok"
    /\ last.arg[3] = "q1" /\ last.arg[4] < 0 /\ steps = 2
    /\ get_current_table_data(St).cards["r1"]["5.0"][1].weight = card_weight_min * WeightScale

\* C13: a transfer between two spaces whose column lists differ, whose
\* destination has 9 rows, or whose new name is a row of the destination
\* fails and changes nothing (document, selection, history, future, file); a
\* transfer that succeeds gives the destination the row under the new name
\* with its cards and colour, a move takes row, cards and colour out of the
\* source, a copy leaves the source as it was, and no other space changes.
C13_TransferRow ==
    [][last'.op = "submit_transfer" =>
        LET a == last'.arg
            before == Live(St).tables
            after == Live(St)'.tables
            src == before[a[2]]
            dst == before[a[3]]
            row == a[4]
            desired_name == IF strip(a[5]) = "" THEN row ELSE strip(a[5])
        IN  /\ (a[2] # a[3] /\ (\/ src.columns # dst.columns
                                 \/ Len(dst.rows) >= MaxRows
                                 \/ Contains(dst.rows, desired_name)))
                => /\ last'.result # "ok"
                   /\ View(St)' = View(St)
                   /\ save_file' = save_file
            /\ last'.result = "ok"
                => /\ after[a[3]].rows = Append(dst.rows, desired_name)
                   /\ after[a[3]].cards = DictSet(dst.cards, desired_name, src.cards[row])
                   /\ after[a[3]].row_colors =
                        DictSet(dst.row_colors, desired_name, src.row_colors[row])
                   /\ a[1] = "copy" => after[a[2]] = src
                   /\ a[1] = "move" =>
                        /\ Range(after[a[2]].rows) = Range(src.rows) \ {row}
                        /\ Len(after[a[2]].rows) = Len(src.rows) - 1
                        /\ after[a[2]].cards = [r \in DOMAIN src.cards \ {row} |-> src.cards[r]]
                        /\ after[a[2]].row_colors =
                                [r \in DOMAIN src.row_colors \ {row} |-> src.row_colors[r]]
                        /\ after[a[2]].columns = src.columns
                   /\ \A n \in DOMAIN before \ {a[2], a[3]} : after[n] = before[n]
                   /\ DOMAIN after = DOMAIN before]_vars

\* a row was moved into a space, and the next transfer into that space, now
\* with 9 rows, was refused
C13_Witness ==
    /\ last.op = "submit_transfer"
    /\ last.result = "Der Ziel-Space ist bereits voll (9 Tabellen)."
    /\ last.same /\ history # <<>>
    /\ Len(Live(St).tables["B"].rows) = MaxRows
    /\ Len(Live(St).tables["A"].rows) = 1
    /\ strip(last.arg[5]) = "r10"

\* the sum of the values of a function of finite domain
RECURSIVE Total(_)
Total(f) ==
    IF DOMAIN f = {} THEN 0
    ELSE LET x == CHOOSE x \in DOMAIN f : TRUE
         IN  f[x] + Total([y \in DOMAIN f \ {x} |-> f[y]])

\* the rows the statistics are asked for: those of the space and one it does not have
StatRows(table) ==
    {r \in Range(table.rows) \cup {"absent"} :
        r \in DOMAIN table.cards => Range(table.columns) \subseteq DOMAIN table.cards[r]}

\* the columns whose label is a number, and their effective grade in tenths
Graded(table) == {c \in Range(table.columns) : IsFloat(c)}

Effective(c) == IF float(c) = 50 THEN 60 ELSE float(c)

\* C14: ratio is the sum over the columns with a numeric label of
\* count * (5 - effective) / 3, divided by the number of cards of the row in
\* those columns; it is 0 for a row that is absent or has no card there.
C14_Ratio ==
    \A table \in Tables : \A r \in StatRows(table) :
        LET count == [c \in Graded(table) |->
                        IF r \in DOMAIN table.cards THEN Len(table.cards[r][c]) ELSE 0]
        IN  calculate_ratio(r, table.cards, table.columns) =
                IF Total(count) = 0 THEN Fraction(0, 1)
                ELSE Fraction(Total([c \in Graded(table) |-> count[c] * (50 - Effective(c))]),
                              30 * Total(count))

\* the cards of a row that count for the expected grade: in a column with a numeric
\* label, with a weight above 0
Counted(table, r) ==
    IF r \notin DOMAIN table.cards THEN {}
    ELSE {cell \in Graded(table) \X (1..9) :
            /\ cell[2] <= Len(table.cards[r][cell[1]])
            /\ CardWeight(table.cards[r][cell[1]][cell[2]]) > 0}

\* C15: expectedGrade is the mean of the effective grades of the counted cards
\* of the row, each weighing weight / 100; it is 0 for a row that is absent or
\* whose counted cards weigh nothing.
C15_ExpectedGrade ==
    \A table \in Tables : \A r \in StatRows(table) :
        LET weight == [cell \in Counted(table, r) |->
                          CardWeight(table.cards[r][cell[1]][cell[2]])]
            graded == [cell \in Counted(table, r) |-> Effective(cell[1]) * weight[cell]]
        IN  calculate_expected_grade(r, table.cards, table.columns) =
                IF Total(weight) = 0 THEN Fraction(0, 1)
                ELSE Fraction(Total(graded), 10 * Total(weight))

\* three cards of weight 100 at the grades 6, 6 and 1 give 13/3 after a card of that
\* row was dragged away and back, and the weights 0, -50 and 250 give the grade of the
\* third card alone
C15_Witness ==
    /\ last.op = "drag_drop" /\ last.result = "ok" /\ steps = 2
    /\ calculate_expected_grade("r1", Live(St).tables["A"].cards,
                                Live(St).tables["A"].columns) = Fraction(13, 3)
    /\ calculate_expected_grade("r1", Live(St).tables["B"].cards,
                                Live(St).tables["B"].columns) = Fraction(1, 1)

\* the rows of a space that hold at least one card, in the order of the space
Filled(table) ==
    SelectSeq(table.rows,
              LAMBDA r : r \in DOMAIN table.cards
                         /\ \E c \in DOMAIN table.cards[r] : table.cards[r][c] # <<>>)

\* C16: the average of a space is the mean of expectedGrade over the rows that
\* hold at least one card, and the placeholder when no row holds a card.
C16_SpaceAverage ==
    \A table \in Tables :
        (\A r \in Range(table.rows) : r \in StatRows(table)) =>
            space_average(table) =
                IF Filled(table) = <<>> THEN "-"
                ELSE FormatHundredths(
                        Mean([k \in 1..Len(Filled(table)) |->
                                calculate_expected_grade(Filled(table)[k], table.cards,
                                                         table.columns)],
                             Len(Filled(table))))

C18_SaveFails ==
    [][(last'.op # "disk" /\ disk # "ok") =>
        LET t == Collect(Handler([St EXCEPT !.disk = "ok"], last'.op, last'.arg))
        IN  /\ View(St)' = View(t)
            /\ last'.result = t.result
            /\ <<"save">> \notin Range(log')
            /\ <<"save">> \in Range(t.log) => <<"save_error">> \in Range(log')]_vars

\* two changes were made and one undone while no save succeeded
C18_Witness ==
    /\ disk = "denied" /\ save_file = DocSmall
    /\ last.op = "undo" /\ last.history_len = 2 /\ Len(history) = 1 /\ Len(future) = 1
    /\ <<"save_error">> \in Range(log)
    /\ Live(St) # DocSmall

\* the cells of a document: space, row and column of every list of cards
CellsOf(doc) ==
    UNION {UNION {{<<n, r, c>> : c \in DOMAIN doc.tables[n].cards[r]} :
                     r \in DOMAIN doc.tables[n].cards} : n \in DOMAIN doc.tables}

CardsAt(doc, cell) == doc.tables[cell[1]].cards[cell[2]][cell[3]]

\* C19: a card added, and the cards of a text import, go to the end of the
\* first column of their row, with weight 100 and unmarked, and no other cell
\* changes; adding a card to a space or a row that does not exist changes
\* neither the document nor the history.
C19_AddCard ==
    [][last'.op \in {"add_card_to_row", "add_card_via_button", "import_cards_via_text"} =>
        LET old == Live(St)
            a == last'.arg
            space == IF last'.op = "import_cards_via_text"
                     THEN parse_card_import_block(a[1]).space_name
                     ELSE old.current_table
            present == has_current_table(St)
                       /\ (last'.op = "add_card_to_row" => a[1] <= Len(old.tables[space].rows))
            row == IF last'.op = "add_card_to_row" THEN old.tables[space].rows[a[1]] ELSE a[1]
        IN  /\ last'.result = "ok" =>
                  \E target \in CellsOf(old) :
                      /\ target[1] = space
                      /\ last'.op # "import_cards_via_text" => target[2] = row
                      /\ target[3] = old.tables[space].columns[1]
                      /\ CellsOf(Live(St)') = CellsOf(old)
                      /\ \A cell \in CellsOf(old) \ {target} :
                              CardsAt(Live(St)', cell) = CardsAt(old, cell)
                      /\ Len(CardsAt(Live(St)', target)) > Len(CardsAt(old, target))
                      /\ \A k \in 1..Len(CardsAt(Live(St)', target)) :
                              IF k <= Len(CardsAt(old, target))
                              THEN CardsAt(Live(St)', target)[k] = CardsAt(old, target)[k]
                              ELSE /\ CardsAt(Live(St)', target)[k].weight
                                         = DEFAULT_CARD_WEIGHT * WeightScale
                                   /\ ~CardsAt(Live(St)', target)[k].marked
            /\ (/\ last'.op # "import_cards_via_text"
                /\ \/ ~present
                   \/ ~Contains(old.tables[space].rows, row)
                   \/ row \notin DOMAIN old.tables[space].cards)
               => /\ Live(St)' = old
                  /\ ResolveAll(heap', history') = ResolveAll(heap, history)]_vars

\* C20: pressing on a card, dragging it and the click that picks a card to
\* move leave document, history and future as they are, and a gesture that
\* ends pushes a history entry only when it has moved a card from one cell to
\* another.
C20_GestureRecords ==
    [][/\ (\/ last'.op \in {"on_card_press", "on_card_motion"}
           \/ last'.op = "on_card_release" /\ moving_card' # <<>>)
          => /\ View(St)' = View(St)
             /\ SelectSeq(log', IsRecord) = <<>>
       /\ (/\ \/ last'.op = "on_card_release" /\ drag_data # <<>> /\ drag_data.moved
              \/ last'.op = "on_column_click" /\ moving_card # <<>>
           /\ \/ SelectSeq(log', IsRecord) # <<>>
              \/ Len(history') # Len(history))
          => /\ Len(last'.arg) = 5
             /\ <<last'.arg[1], last'.arg[2]>> # <<last'.arg[4], last'.arg[5]>>
             /\ Live(St)' # Live(St)]_vars

\* the fronts of the cards a row holds, each as often as a card has it
FrontsOf(table, row) ==
    LET cells == IF row \in DOMAIN table.cards
                 THEN {cell \in (DOMAIN table.cards[row]) \X (1..9) :
                          cell[2] <= Len(table.cards[row][cell[1]])}
                 ELSE {}
    IN  [front \in {table.cards[row][cell[1]][cell[2]].front : cell \in cells} |->
            Cardinality({cell \in cells : table.cards[row][cell[1]][cell[2]].front = front})]

\* C21: the text import skips every entry whose front is already in some
\* column of the target row, counts it as skipped, adds every other entry
\* exactly once, and leaves document and history unchanged when it skips all.
C21_ImportSkips ==
    [][(/\ last'.op = "import_cards_via_text"
        /\ last'.result \in {"ok", "Keine neuen Karten"})
       => LET parsed == parse_card_import_block(last'.arg[1])
              space == parsed.space_name
              old == Live(St).tables[space]
              row == IF Live(St).current_table = space /\ Contains(old.rows, selected_row_name)
                     THEN selected_row_name ELSE last'.arg[2]
              held == DOMAIN FrontsOf(old, row)
              given == {parsed.cards_payload[k][1] : k \in 1..Len(parsed.cards_payload)}
              new == FrontsOf(Live(St)'.tables[space], row)
          IN  /\ DOMAIN new = held \cup given
              /\ \A front \in DOMAIN new :
                     new[front] = IF front \in held THEN FrontsOf(old, row)[front] ELSE 1
              /\ last'.result = "ok" =>
                     <<"imported", Cardinality(given \ held),
                       Len(parsed.cards_payload) - Cardinality(given \ held)>> \in Range(log')
              /\ given \subseteq held =>
                     /\ last'.result = "Keine neuen Karten"
                     /\ Live(St)' = Live(St)
                     /\ ResolveAll(heap', history') = ResolveAll(heap, history)]_vars

\* C22: creating a space fails, document and history unchanged, when its name
\* is taken or the number of columns is below 2; a space created with n
\* columns has n labels, the k-th the one-decimal form of the tenth nearest to
\* 5 - (k - 1) * 4 / (n - 1), the first "5.0" and the last "1.0".
C22_CreateTable ==
    [][last'.op = "new_table" =>
        LET name == strip(last'.arg[1])
            cols == rstrip(lstrip(last'.arg[2]))
            n == int(cols)
        IN  /\ (name \in DOMAIN Live(St).tables \/ (isdigit(cols) /\ n < 2))
                  => /\ last'.result # "ok"
                     /\ View(St)' = View(St)
            /\ last'.result = "ok"
                  => LET columns == Live(St)'.tables[name].columns
                     IN  /\ n >= 2
                         /\ name \notin DOMAIN Live(St).tables
                         /\ Len(columns) = n
                         /\ columns[1] = "5.0" /\ columns[n] = "1.0"
                         /\ \A k \in 1..n : \E tenths \in 10..50 :
                                /\ columns[k] = FormatTenths(tenths)
                                /\ 2 * (tenths * (n - 1) - (50 * (n - 1) - 40 * (k - 1))) <= n - 1
                                /\ 2 * ((50 * (n - 1) - 40 * (k - 1)) - tenths * (n - 1)) <= n - 1]_vars

\* a space of 4 columns was created: two of its labels are rounded
C22_Witness ==
    /\ last.op = "new_table" /\ last.result = "ok"
    /\ "C" \in DOMAIN Live(St).tables
    /\ Live(St).tables["C"].columns = <<"5.0", "3.7", "2.3", "1.0">>

\* C23: the normal form of the normal form of a card is the normal form of
\* the card, its weight is a float of finite size, and a tree of cards in
\* normal form is its own normal form.
C23_Normalize ==
    last.op = "normalize_cards_tree" =>
        LET card == log[1][2]["r1"]["5.0"][1]
            once == normalize_card_entry(last.arg[1])
        IN  /\ card = once
            /\ card.dict /\ card.weight.kind = "float" /\ card.weight.text = ""
            /\ normalize_card_entry(once) = once
            /\ normalize_cards_tree(log[1][2]) = log[1][2]

\* a text without the white space and the pair of braces around it
Unbraced(raw) ==
    LET inner == rstrip(lstrip(raw))
    IN  IF Len(inner) >= 2 /\ inner[1] = "{" /\ inner[Len(inner)] = "}"
        THEN rstrip(lstrip(SubSeq(inner, 2, Len(inner) - 1)))
        ELSE inner

\* what a text stands for: the name before its first "::", and the pairs of the
\* entries between the ";" of the block after it that have a front
Meant(raw) ==
    LET text == Unbraced(raw)
        seps == {k \in 1..Len(text) : text[k] = "::"}
        first == CHOOSE k \in seps : \A j \in seps : k <= j
        block == Unbraced(SubSeq(text, first + 1, Len(text)))
        cuts == {0, Len(block) + 1} \cup {k \in 1..Len(block) : block[k] = ";"}
        start(n) == CHOOSE a \in cuts : Cardinality({c \in cuts : c < a}) = n - 1
        entry(n) == rstrip(lstrip(SubSeq(block, start(n) + 1, start(n + 1) - 1)))
        mid(n) == CHOOSE k \in 1..Len(entry(n)) :
                     entry(n)[k] = "::" /\ \A j \in 1..(k - 1) : entry(n)[j] # "::"
        pair(n) == IF \E k \in 1..Len(entry(n)) : entry(n)[k] = "::"
                   THEN <<strip(SubSeq(entry(n), 1, mid(n) - 1)),
                          strip(SubSeq(entry(n), mid(n) + 1, Len(entry(n))))>>
                   ELSE <<join(entry(n)), "">>
        pairs == [n \in 1..(Cardinality(cuts) - 1) |-> pair(n)]
    IN  IF seps = {} THEN [name |-> "", pairs |-> <<>>]
        ELSE [name |-> strip(SubSeq(text, 1, first - 1)),
              pairs |-> SelectSeq(pairs, LAMBDA p : p[1] # "")]

\* C24: a text without "::" after a name, without a name, or without an entry
\* that has a front is rejected with a reason and changes nothing; any other
\* text yields the name before its first "::" and, in order, the (front, back)
\* pairs of the entries of its block, braces stripped, blank entries ignored.
C24_ParseImport ==
    [][last'.op = "import_cards_via_text" =>
        LET meant == Meant(last'.arg[1])
            parsed == parse_card_import_block(last'.arg[1])
        IN  IF meant.name = "" \/ meant.pairs = <<>>
            THEN /\ parsed.error # ""
                 /\ last'.result = parsed.error
                 /\ View(St)' = View(St)
                 /\ save_file' = save_file
            ELSE /\ parsed.error = ""
                 /\ parsed.space_name = meant.name
                 /\ parsed.cards_payload = meant.pairs
                 /\ last'.result = "ok" =>
                        \A n \in 1..Len(meant.pairs) :
                            \E row \in DOMAIN Live(St)'.tables[meant.name].cards :
                                HasCard(Live(St)'.tables[meant.name].cards[row]
                                            [Live(St)'.tables[meant.name].columns[1]],
                                        meant.pairs[n][1])]_vars

\* a text with braces around the whole and around the block was imported:
\* the card "q3" has the back "b", and "q1" was there before
C24_Witness ==
    /\ last.op = "import_cards_via_text" /\ last.result = "ok"
    /\ last.arg[1][1] = "{" /\ last.arg[1][4] = "{"
    /\ <<"imported", 1, 1>> \in Range(log)
    /\ \E i \in 1..Len(Live(St).tables["A"].cards["r1"]["5.0"]) :
          /\ Live(St).tables["A"].cards["r1"]["5.0"][i].front = "q3"
          /\ Live(St).tables["A"].cards["r1"]["5.0"][i].back = "b"

\* C25: history and future together never hold more than 7 entries: a step
\* that records leaves the future empty and at most 7 entries in the history,
\* an undo moves one entry from the history to the future and a redo one back,
\* and neither finds the stack it appends to full.
C25_StacksWithinSeven ==
    [][/\ Len(history) + Len(future) <= max_history
       /\ Len(history') + Len(future') <= max_history
       /\ <<"record">> \in {<<event[1]>> : event \in Range(log')} =>
              future' = <<>> /\ Len(history') <= max_history
       /\ (last'.op = "undo" /\ history # <<>>) =>
              /\ Len(future) < max_history
              /\ Len(future') = Len(future) + 1
              /\ Len(history') = Len(history) - 1
       /\ (last'.op = "redo" /\ future # <<>>) =>
              /\ Len(history) < max_history
              /\ Len(history') = Len(history) + 1
              /\ Len(future') = Len(future) - 1]_vars

\* an undo out of a full history: 6 entries stay, the future holds one
C25_Witness ==
    /\ last.op = "undo" /\ last.history_len = max_history
    /\ Len(history) = max_history - 1 /\ Len(future) = 1

\* the card that moving_card remembers is in its cell of the current space
Remembered(s) ==
    /\ has_current_table(s)
    /\ HasCell(get_current_table_data(s), s.moving_card[1], s.moving_card[2])
    /\ HasCard(get_current_table_data(s).cards[s.moving_card[1]][s.moving_card[2]],
               s.moving_card[3])

\* C26: a click on a card or a column that would complete a move whose card
\* is no longer in its cell (the card or its row was deleted, the space was
\* switched, undo or redo replaced the document) raises nothing and leaves
\* document, selection, history and future unchanged.
C26_StaleMove ==
    [][(/\ last'.op \in {"on_column_click", "on_card_click"}
        /\ moving_card # <<>>
        /\ ~Remembered(St))
       => /\ <<"raise">> \notin Range(log')
          /\ View(St)' = View(St)]_vars

\* C30: delete mode and mark mode are never on together.
C30_OneMode == ~(delete_mode /\ mark_mode)

\* mark mode was switched on while delete mode was on: delete mode is off
C30_Witness ==
    /\ last.op = "toggle_mark_mode" /\ last.arg = <<"delete_mode">>
    /\ mark_mode /\ ~delete_mode

\* C27: after a reload from the save file, the load of a stored version, or
\* the switch to an existing save file, history and future are empty, so that
\* an undo or redo after it finds nothing to restore.
C27_LoadResetsHistory ==
    [][(\/ last'.op \in {"load_data_or_create_new_table", "load_history_state"}
        \/ last'.op = "change_save_location" /\ last'.arg = <<"no">>)
       => history' = <<>> /\ future' = <<>>]_vars

C29_CopySharesNothing ==
    [][/\ last'.op \in {"adjust_card_weight", "on_card_click", "persist_changes",
                       "delete", "move"}
          => \A key \in DOMAIN objects.cards :
                key \notin Range(last'.arg) => CellValue(objects', key) = CellValue(objects, key)
       /\ last'.op \in {"submit_transfer", "duplicate_current_table"}
          => /\ \A key \in DOMAIN objects.cards :
                    CellValue(objects', key) = CellValue(objects, key)
             /\ \A key \in (DOMAIN objects'.cards) \ (DOMAIN objects.cards) :
                    \E src \in DOMAIN objects.cards :
                       /\ src[3] = key[3]
                       /\ CellValue(objects', key) = CellValue(objects, src)]_vars

\* space A was duplicated, the card of the copy was marked and the card of the
\* source deleted: the copy still holds its card
C29_Witness ==
    /\ <<"A_kopie", "r1", "5.0">> \in DOMAIN objects.cards
    /\ CellValue(objects, <<"A", "r1", "5.0">>) = <<>>
    /\ Len(CellValue(objects, <<"A_kopie", "r1", "5.0">>)) = 1
    /\ CellValue(objects, <<"A_kopie", "r1", "5.0">>)[1].marked

====
